---- MODULE Spec2Model ----
(***************************************************************************)
(* A model of the CloudMount daemon (Daemon/CloudMountDaemon): the inode   *)
(* table, the metadata and content caches, the handle table, the FUSE      *)
(* adapter B2Filesystem, and the mount manager.                            *)
(*                                                                         *)
(* Strings are tuples of one-character strings, so that trimming,          *)
(* prefixes and joins are computed as the code computes them.  An          *)
(* Option<T> is a tuple of length 0 (None) or 1 (Some).  A HashMap is a    *)
(* function whose DOMAIN is its key set.                                   *)
(*                                                                         *)
(* The remote store keeps one version per key; every step happens within   *)
(* the TTLs of the metadata cache.                                         *)
(***************************************************************************)
EXTENDS Integers, Sequences, FiniteSets, TLC

VARIABLES
    inode_table,    \* B2Filesystem.inode_table : InodeTable {path_to_ino, ino_to_path, next_ino}
    metadata_cache, \* B2Filesystem.metadata_cache : {attr_cache, dir_cache, negative}
    file_cache,     \* B2Filesystem.file_cache : FileCache.entries (path -> CacheEntry)
    handle_table,   \* B2Filesystem.handle_table : HandleTable {handles, next_fh}
    disk,           \* the local filesystem under the cache root: {links, files}
    remote,         \* the bucket: key -> bytes
    rest_reported,  \* history: inode -> the content length the store last reported to the cache
    rest_held,      \* history: the mutexes held at a REST call of the latest handler
    ops,            \* history: the number of kernel requests handled
    kernel_inos,    \* the inode numbers the kernel was given in a reply
    mounts,         \* MountManager.mounts : bucket id -> MountHandle {mountpoint, task}
    tasks,          \* the blocking tasks spawned for kernel-bridge sessions, in spawn order
    calls,          \* the position of each caller of the mount manager
    fetches,        \* the position of each thread inside FileCache::get_or_fetch
    retry,          \* B2Client::with_retry around one operation: its position and the client's state
    client,         \* B2Client and the REST call the adapter has under way
    ipc,            \* the control channel: connection_count and each connection's streams
    mutexes,        \* the owner of each Mutex of B2Filesystem and FileCache
    upcalls         \* the position of each thread inside a handler of the adapter

fsvars == <<metadata_cache, file_cache, handle_table, disk, remote, rest_reported, rest_held,
            ops, kernel_inos>>

mountvars == <<mounts, tasks, calls>>

\* The state of the components that are also modelled step by step.
compvars == <<fetches, retry, client, ipc, mutexes, upcalls>>

vars == <<inode_table, metadata_cache, file_cache, handle_table, disk, remote, rest_reported,
          rest_held, ops, kernel_inos, mounts, tasks, calls, fetches,
          retry, client, ipc, mutexes, upcalls>>

----------------------------------------------------------------------------
(* Bounds of the model. *)

\* Inode numbers are allocated while next_ino <= MaxIno.
MaxIno == 3

\* The inode table on its own allocates while next_ino <= MaxTableIno.
MaxTableIno == 3

\* File handles are opened while next_fh <= MaxFh.
MaxFh == 2

\* A path has at most MaxDepth components.
MaxDepth == 1

\* The configured maximum of the content cache, in bytes (FileCache.max_size).
MaxCacheSize == 1

\* A local file holds at most MaxFileLen bytes.
MaxFileLen == 1

\* The kernel sends at most MaxOps requests.
MaxOps == 4

\* The mount manager spawns at most MaxTasks kernel-bridge sessions.
MaxTasks == 2

\* The content cache on its own holds at most CacheMaxSize bytes and serves
\* at most MaxCacheOps calls.
CacheMaxSize == 5

MaxCacheOps == 5

\* The threads of the content cache begin at most MaxFetches calls.
MaxFetches == 3

\* At most MaxRetryCalls calls run under the retry policy.
MaxRetryCalls == 2

\* The adapter makes at most MaxClientCalls REST calls, each sending at most
\* MaxRequests requests; a listing has MaxPages pages.
MaxClientCalls == 2

MaxRequests == 3

MaxPages == 2

\* max_file_count of a listing request (1000 in the client)
MaxFileCount == 1

\* connections the control channel accepts, and lines a client sends on one
MaxConnections == 2

MaxLines == 2

----------------------------------------------------------------------------
(* Option and HashMap helpers. *)

None == <<>>
Some(x) == <<x>>
IsSome(o) == o # <<>>
Unwrap(o) == o[1]

EmptyMap == <<>>
MapGet(m, k) == IF k \in DOMAIN m THEN Some(m[k]) ELSE None
MapPut(m, k, v) == [x \in (DOMAIN m) \cup {k} |-> IF x = k THEN v ELSE m[x]]
MapDel(m, k) == [x \in (DOMAIN m) \ {k} |-> m[x]]

----------------------------------------------------------------------------
(* fs/inode.rs : InodeTable *)

ROOT_INO == 1

SLASH == "/"

RECURSIVE trim_start_matches(_)
trim_start_matches(s) ==
    IF s # <<>> /\ Head(s) = SLASH THEN trim_start_matches(Tail(s)) ELSE s

RECURSIVE trim_end_matches(_)
trim_end_matches(s) ==
    IF s # <<>> /\ s[Len(s)] = SLASH
    THEN trim_end_matches(SubSeq(s, 1, Len(s) - 1))
    ELSE s

\* path.trim_matches('/')
normalize_path(path) == trim_end_matches(trim_start_matches(path))

InodeTable_new ==
    [path_to_ino |-> (<<>> :> ROOT_INO),
     ino_to_path |-> (ROOT_INO :> <<>>),
     next_ino    |-> ROOT_INO + 1]

\* Returns the table after the call and the inode returned.
lookup_or_create(t, path) ==
    LET normalized == normalize_path(path) IN
    IF normalized \in DOMAIN t.path_to_ino
    THEN [table |-> t, ino |-> t.path_to_ino[normalized]]
    ELSE [table |-> [path_to_ino |-> MapPut(t.path_to_ino, normalized, t.next_ino),
                     ino_to_path |-> MapPut(t.ino_to_path, t.next_ino, normalized),
                     next_ino    |-> t.next_ino + 1],
          ino   |-> t.next_ino]

get_path(t, ino) == MapGet(t.ino_to_path, ino)

get_ino(t, path) == MapGet(t.path_to_ino, normalize_path(path))

\* Position of the last '/' of a path, 0 when there is none (path.rfind('/')).
rfind_slash(path) ==
    LET S == {i \in 1..Len(path) : path[i] = SLASH} IN
    IF S = {} THEN 0 ELSE CHOOSE i \in S : \A j \in S : j <= i

get_parent_ino(t, ino) ==
    IF ino = ROOT_INO THEN ROOT_INO
    ELSE LET p == get_path(t, ino) IN
         IF ~IsSome(p) THEN ROOT_INO
         ELSE LET path == Unwrap(p)
                  last_slash == rfind_slash(path) IN
              IF path = <<>> THEN ROOT_INO
              ELSE IF last_slash = 0 THEN ROOT_INO
              ELSE LET parent_path == SubSeq(path, 1, last_slash - 1) IN
                   IF parent_path \in DOMAIN t.path_to_ino
                   THEN t.path_to_ino[parent_path]
                   ELSE ROOT_INO

\* A remove that hands the number of the removed inode back to the allocator.
remove_reusing(t, ino) ==
    IF ino \in DOMAIN t.ino_to_path
    THEN [path_to_ino |-> MapDel(t.path_to_ino, t.ino_to_path[ino]),
          ino_to_path |-> MapDel(t.ino_to_path, ino),
          next_ino    |-> IF 2 <= ino /\ ino < t.next_ino THEN ino ELSE t.next_ino]
    ELSE t

InodeTable_remove(t, ino) ==
    IF ino \in DOMAIN t.ino_to_path
    THEN [t EXCEPT !.ino_to_path = MapDel(t.ino_to_path, ino),
                   !.path_to_ino = MapDel(t.path_to_ino, t.ino_to_path[ino])]
    ELSE t

\* Returns the table after the call and the Option<u64> returned.
remove_by_path(t, path) ==
    LET normalized == normalize_path(path) IN
    IF normalized \in DOMAIN t.path_to_ino
    THEN [table |-> [t EXCEPT !.path_to_ino = MapDel(t.path_to_ino, normalized),
                              !.ino_to_path = MapDel(t.ino_to_path,
                                                     t.path_to_ino[normalized])],
          ino   |-> Some(t.path_to_ino[normalized])]
    ELSE [table |-> t, ino |-> None]

InodeTable_rename(t, ino, new_path) ==
    LET normalized == normalize_path(new_path)
        unmapped == IF ino \in DOMAIN t.ino_to_path
                    THEN MapDel(t.path_to_ino, t.ino_to_path[ino])
                    ELSE t.path_to_ino
    IN [t EXCEPT !.path_to_ino = MapPut(unmapped, normalized, ino),
                 !.ino_to_path = MapPut(t.ino_to_path, ino, normalized)]

----------------------------------------------------------------------------
(* Strings. *)

\* The characters of the model, in ASCII order.
Alphabet == <<".", "/", ":", "_", "a", "b">>

CharRank(ch) == CHOOSE i \in 1..Len(Alphabet) : Alphabet[i] = ch

RECURSIVE LexLess(_, _)
LexLess(x, y) ==
    IF x = <<>> THEN y # <<>>
    ELSE IF y = <<>> THEN FALSE
    ELSE IF Head(x) = Head(y) THEN LexLess(Tail(x), Tail(y))
    ELSE CharRank(Head(x)) < CharRank(Head(y))

\* The strings of a finite set in ascending order.
RECURSIVE SortedSeq(_)
SortedSeq(S) ==
    IF S = {} THEN <<>>
    ELSE LET m == CHOOSE x \in S : \A y \in S \ {x} : LexLess(x, y)
         IN <<m>> \o SortedSeq(S \ {m})

starts_with(s, p) == Len(p) <= Len(s) /\ SubSeq(s, 1, Len(p)) = p

ends_with_slash(s) == s # <<>> /\ s[Len(s)] = SLASH

\* Position of the first '/' of a string, 0 when there is none (find('/')).
find_slash(s) ==
    LET S == {i \in 1..Len(s) : s[i] = SLASH} IN
    IF S = {} THEN 0 ELSE CHOOSE i \in S : \A j \in S : i <= j

\* format!("{}/{}", parent_path, name), or the name alone under the root.
child_path_of(parent_path, name) ==
    IF parent_path = <<>> THEN name ELSE parent_path \o <<SLASH>> \o name

SeqSum(f, S) ==
    LET RECURSIVE Go(_)
        Go(T) == IF T = {} THEN 0
                 ELSE LET x == CHOOSE y \in T : TRUE IN f[x] + Go(T \ {x})
    IN Go(S)

----------------------------------------------------------------------------
(* b2/types.rs : FileInfo and the attributes made from it *)

FileInfo(file_name, content_length, action, file_id) ==
    [file_name |-> file_name, content_length |-> content_length,
     action |-> action, file_id |-> file_id]

is_directory(file) == file.action = "folder" \/ ends_with_slash(file.file_name)

b2_file_to_attr(ino, file) ==
    [ino  |-> ino,
     size |-> file.content_length,
     kind |-> IF is_directory(file) THEN "Directory" ELSE "RegularFile"]

directory_attr(ino) == [ino |-> ino, size |-> 0, kind |-> "Directory"]

stub_file_attr(ino, size) == [ino |-> ino, size |-> size, kind |-> "RegularFile"]

----------------------------------------------------------------------------
(* The remote store, as b2/client.rs uses it.  `bucket` maps each key to   *)
(* its bytes.  The file id of a key's only version is the key itself.      *)

\* b2_list_file_names: the files whose name starts with the prefix, in name
\* order; with a delimiter, the names that hold the delimiter after the
\* prefix are rolled up into one "folder" entry each.
b2_list_file_names(bucket, prefix, delimiter) ==
    LET p == IF IsSome(prefix) THEN Unwrap(prefix) ELSE <<>>
        matching == {k \in DOMAIN bucket : starts_with(k, p)}
        rest(k) == SubSeq(k, Len(p) + 1, Len(k))
        folded(k) == IsSome(delimiter) /\ find_slash(rest(k)) # 0
        name(k) == IF folded(k) THEN SubSeq(k, 1, Len(p) + find_slash(rest(k))) ELSE k
        names == {name(k) : k \in matching}
        isFolder(n) == \E k \in matching : folded(k) /\ name(k) = n
        info(n) == IF isFolder(n)
                   THEN FileInfo(n, 0, "folder", None)
                   ELSE FileInfo(n, Len(bucket[n]), "upload", Some(n))
        sorted == SortedSeq(names)
    IN [i \in 1..Len(sorted) |-> info(sorted[i])]

\* B2Client::get_file_info: a listing with the path as prefix and no
\* delimiter, then the exact match.  None stands for "File not found".
get_file_info(bucket, file_path) ==
    LET files == b2_list_file_names(bucket, Some(file_path), None)
        hit == {i \in 1..Len(files) : files[i].file_name = file_path}
    IN IF hit = {} THEN None ELSE Some(files[CHOOSE i \in hit : TRUE])

\* One answer of b2_list_file_names to a request with start_file_name and
\* max_file_count: the names from start_file_name on, at most max_file_count
\* of them, and the name the next request starts with.  `all` is the whole
\* listing in the order of the store.
page_between(all, first, last) ==
    [files |-> SubSeq(all, first, last),
     next_file_name |-> IF last < Len(all) THEN Some(all[last + 1].file_name) ELSE None]

page_from(all, first, max_file_count) ==
    page_between(all, first,
                 IF first + max_file_count - 1 < Len(all)
                 THEN first + max_file_count - 1 ELSE Len(all))

page_of(all, start_file_name, max_file_count) ==
    page_from(all,
              1 + Cardinality({i \in 1..Len(all) :
                                  /\ IsSome(start_file_name)
                                  /\ LexLess(all[i].file_name, Unwrap(start_file_name))}),
              max_file_count)

\* The loop of B2Client::list_file_names over the pages of the listing;
\* `all` is what the store holds for the prefix and delimiter of the requests.
RECURSIVE list_file_names_loop(_, _, _)
list_file_names_extend(all, all_files, list_response) ==
    IF IsSome(list_response.next_file_name)
    THEN list_file_names_loop(all, list_response.next_file_name,
                              all_files \o list_response.files)
    ELSE all_files \o list_response.files

list_file_names_loop(all, start_file_name, all_files) ==
    list_file_names_extend(all, all_files, page_of(all, start_file_name, MaxFileCount))

\* A listing that stops after its first page.
list_file_names_first_page(bucket, prefix, delimiter) ==
    page_of(b2_list_file_names(bucket, prefix, delimiter), None, MaxFileCount).files

list_file_names(bucket, prefix, delimiter) ==
    list_file_names_loop(b2_list_file_names(bucket, prefix, delimiter), None, <<>>)

\* B2Client::upload_file: the bucket afterwards and the FileInfo returned.
upload_file(bucket, file_name, data) ==
    [bucket |-> MapPut(bucket, file_name, data),
     info   |-> FileInfo(file_name, Len(data), "upload", Some(file_name))]

\* B2Client::create_folder
create_folder(bucket, folder_path) ==
    upload_file(bucket,
                IF ends_with_slash(folder_path) THEN folder_path
                ELSE folder_path \o <<SLASH>>,
                <<>>)

\* B2Client::delete_file (b2_delete_file_version): fails for a version the
\* store does not hold.
delete_file(bucket, file_name, file_id) ==
    IF file_name \in DOMAIN bucket /\ file_id = file_name
    THEN [ok |-> TRUE, bucket |-> MapDel(bucket, file_name)]
    ELSE [ok |-> FALSE, bucket |-> bucket]

\* B2Client::hide_file: the key is no longer listed.
hide_file(bucket, file_name) ==
    IF file_name \in DOMAIN bucket
    THEN [ok |-> TRUE, bucket |-> MapDel(bucket, file_name)]
    ELSE [ok |-> FALSE, bucket |-> bucket]

\* B2Client::copy_file
copy_file(bucket, source_file_id, dest_file_name) ==
    IF source_file_id \in DOMAIN bucket
    THEN [ok |-> TRUE,
          bucket |-> MapPut(bucket, dest_file_name, bucket[source_file_id]),
          info |-> FileInfo(dest_file_name, Len(bucket[source_file_id]), "upload",
                            Some(dest_file_name))]
    ELSE [ok |-> FALSE, bucket |-> bucket, info |-> None]

\* B2Client::download_file
download_file(bucket, file_name) == MapGet(bucket, file_name)

----------------------------------------------------------------------------
(* cache/metadata.rs : MetadataCache.  The negative cache (insert_negative, *)
(* is_negative_cached, remove_negative) is called by fs/b2fs.rs and is not  *)
(* part of cache/metadata.rs; it is the set of paths section 4.2 of the     *)
(* specification describes.                                                 *)

MetadataCache_new == [attr_cache |-> EmptyMap, dir_cache |-> EmptyMap, negative |-> {}]

get_attr(mc, ino) == MapGet(mc.attr_cache, ino)

insert_attr(mc, ino, attr) == [mc EXCEPT !.attr_cache = MapPut(@, ino, attr)]

insert_file_info(mc, ino, file_info) == insert_attr(mc, ino, b2_file_to_attr(ino, file_info))

get_dir(mc, ino) == MapGet(mc.dir_cache, ino)

insert_dir(mc, ino, entries) == [mc EXCEPT !.dir_cache = MapPut(@, ino, entries)]

\* An invalidation that forgets the attributes only.
invalidate_attr_only(mc, ino) == [mc EXCEPT !.attr_cache = MapDel(@, ino)]

MetadataCache_invalidate(mc, ino) ==
    [mc EXCEPT !.attr_cache = MapDel(@, ino), !.dir_cache = MapDel(@, ino)]

insert_negative(mc, path) == [mc EXCEPT !.negative = @ \cup {path}]

is_negative_cached(mc, path) == path \in mc.negative

remove_negative(mc, path) == [mc EXCEPT !.negative = @ \ {path}]

----------------------------------------------------------------------------
(* The local filesystem under the cache root.  `links` maps a local path   *)
(* to a file, `files` maps a file to its bytes, `dirs` holds the            *)
(* directories below the cache root.  A file that is unlinked lives on      *)
(* while a handle holds it open.                                            *)

Disk_new == [links |-> EmptyMap, files |-> EmptyMap, dirs |-> {}]

\* The names tempfile::NamedTempFile gives, the n-th being fresh.
TempNames == <<"t1", "t2", "t3", "t4", "t5", "t6", "t7", "t8">>

cache_local(safe_path) == <<"cache", safe_path>>

tmp_local(n) == <<"tmp", <<TempNames[n]>>>>

\* The directories a relative path lies in.
ancestors(safe_path) ==
    {SubSeq(safe_path, 1, i - 1) : i \in {j \in 1..Len(safe_path) : safe_path[j] = SLASH}}

is_file(d, local_path) == local_path \in DOMAIN d.links

is_dir(d, local_path) == local_path[1] = "cache" /\ local_path[2] \in d.dirs

\* Path::exists
exists(d, local_path) == is_file(d, local_path) \/ is_dir(d, local_path)

file_len(d, local_path) == Len(d.files[d.links[local_path]])

fresh_file(d) == CHOOSE f \in 1..(Cardinality(DOMAIN d.files) + 1) : f \notin DOMAIN d.files

\* create (or replace) the file at local_path with the given bytes
write_new(d, local_path, data) ==
    LET f == fresh_file(d) IN
    [d EXCEPT !.links = MapPut(@, local_path, f), !.files = MapPut(@, f, data)]

\* fs::remove_file: removes a file, fails on anything else.
remove_file(d, local_path) ==
    IF is_file(d, local_path)
    THEN [ok |-> TRUE, disk |-> [d EXCEPT !.links = MapDel(@, local_path)]]
    ELSE [ok |-> FALSE, disk |-> d]

\* tempfile::NamedTempFile::new_in(cache_dir/tmp) followed by keep()
new_temp_file(d) ==
    LET used == {n \in 1..Len(TempNames) : tmp_local(n) \in DOMAIN d.links}
        n == CHOOSE k \in 1..Len(TempNames) : k \notin used /\ \A j \in 1..(k - 1) : j \in used
    IN [disk |-> write_new(d, tmp_local(n), <<>>), path |-> tmp_local(n)]

\* The files nothing refers to are gone: neither a path nor an open handle.
collect(d, open_files) ==
    LET live == {d.links[p] : p \in DOMAIN d.links} \cup open_files IN
    [d EXCEPT !.files = [f \in (DOMAIN d.files) \cap live |-> d.files[f]]]

\* Total bytes of the files under the cache root.
disk_bytes(d) ==
    LET linked == {d.links[p] : p \in DOMAIN d.links} IN
    SeqSum([f \in linked |-> Len(d.files[f])], linked)

\* seek(offset) followed by write_all(data): a gap is filled with zeros.
write_at(content, offset, data) ==
    LET n == IF Len(content) > offset + Len(data) THEN Len(content) ELSE offset + Len(data)
    IN [i \in 1..n |->
          IF i > offset /\ i <= offset + Len(data) THEN data[i - offset]
          ELSE IF i <= Len(content) THEN content[i]
          ELSE 0]

\* seek(offset) followed by read into a buffer of `size` bytes
read_at(content, offset, size) ==
    IF offset >= Len(content) THEN <<>>
    ELSE SubSeq(content, offset + 1,
                IF offset + size < Len(content) THEN offset + size ELSE Len(content))

----------------------------------------------------------------------------
(* fs/handles.rs : HandleTable *)

HandleTable_new == [handles |-> EmptyMap, next_fh |-> 1]

FileHandle(ino, path, local_path, file, is_write) ==
    [ino |-> ino, path |-> path, local_path |-> local_path, file |-> file,
     is_dirty |-> FALSE, is_write |-> is_write]

\* File::open fails when the local path holds no file.
open_read(ht, d, ino, path, local_path) ==
    IF ~is_file(d, local_path) THEN [ok |-> FALSE, ht |-> ht, fh |-> 0]
    ELSE [ok |-> TRUE,
          ht |-> [handles |-> MapPut(ht.handles, ht.next_fh,
                                     FileHandle(ino, path, local_path,
                                                d.links[local_path], FALSE)),
                  next_fh |-> ht.next_fh + 1],
          fh |-> ht.next_fh]

open_write(ht, d, ino, path, local_path) ==
    IF ~is_file(d, local_path) THEN [ok |-> FALSE, ht |-> ht, fh |-> 0]
    ELSE [ok |-> TRUE,
          ht |-> [handles |-> MapPut(ht.handles, ht.next_fh,
                                     FileHandle(ino, path, local_path,
                                                d.links[local_path], TRUE)),
                  next_fh |-> ht.next_fh + 1],
          fh |-> ht.next_fh]

HandleTable_get(ht, fh) == MapGet(ht.handles, fh)

\* Returns the table after the call and the handle removed from it.
HandleTable_close(ht, fh) ==
    [ht |-> [ht EXCEPT !.handles = MapDel(@, fh)], handle |-> MapGet(ht.handles, fh)]

open_files(ht) == {ht.handles[fh].file : fh \in DOMAIN ht.handles}

----------------------------------------------------------------------------
(* cache/file_cache.rs : FileCache.  `fc` is the entries map, `d` the disk. *)

FileCache_new == EmptyMap

replace_colon(s) == [i \in 1..Len(s) |-> IF s[i] = ":" THEN "_" ELSE s[i]]

path_to_local(path) == cache_local(replace_colon(path))

\* SystemTime::now(): later than the access time of every other entry.
now(fc, path) ==
    LET others == {fc[p].last_accessed : p \in (DOMAIN fc) \ {path}} IN
    IF others = {} THEN 1 ELSE 1 + CHOOSE m \in others : \A x \in others : x <= m

\* Returns the Option<PathBuf> and the disk afterwards: a file of another
\* size is removed from the disk, its entry stays.
has_cached(d, path, expected_size) ==
    LET local_path == path_to_local(path) IN
    IF is_file(d, local_path)
    THEN IF file_len(d, local_path) = expected_size
         THEN [hit |-> Some(local_path), disk |-> d]
         ELSE [hit |-> None, disk |-> remove_file(d, local_path).disk]
    ELSE [hit |-> None, disk |-> d]

\* create_dir_all(parent), a temp file in the parent, write_all, persist.
store(d, path, data) ==
    LET local_path == path_to_local(path)
        dirs == ancestors(local_path[2])
    IN IF \E a \in dirs : is_file(d, cache_local(a))
       THEN [ok |-> FALSE, disk |-> d]
       ELSE IF is_dir(d, local_path)
       THEN [ok |-> FALSE, disk |-> [d EXCEPT !.dirs = @ \cup dirs]]
       ELSE [ok |-> TRUE,
             disk |-> write_new([d EXCEPT !.dirs = @ \cup dirs], local_path, data)]

touch(fc, path) ==
    IF path \in DOMAIN fc
    THEN [fc EXCEPT ![path].last_accessed = now(fc, path)]
    ELSE fc

\* The paths of the entries, oldest access first.
RECURSIVE by_last_accessed(_, _)
by_last_accessed(fc, S) ==
    IF S = {} THEN <<>>
    ELSE LET m == CHOOSE p \in S : \A q \in S : fc[p].last_accessed <= fc[q].last_accessed
         IN <<m>> \o by_last_accessed(fc, S \ {m})

RECURSIVE evict_loop(_, _, _, _, _)
evict_loop(fc, d, sorted, freed, target) ==
    IF sorted = <<>> \/ freed >= target THEN [fc |-> fc, disk |-> d]
    ELSE LET path == Head(sorted)
             r == remove_file(d, fc[path].local_path)
         IN IF r.ok
            THEN evict_loop(MapDel(fc, path), r.disk, Tail(sorted),
                            freed + fc[path].size, target)
            ELSE evict_loop(fc, d, Tail(sorted), freed, target)

\* The paths of the entries, latest access first.
RECURSIVE by_latest_accessed(_, _)
by_latest_accessed(fc, S) ==
    IF S = {} THEN <<>>
    ELSE LET m == CHOOSE p \in S : \A q \in S : fc[p].last_accessed >= fc[q].last_accessed
         IN <<m>> \o by_latest_accessed(fc, S \ {m})

evict_newest_first(fc, d, max_size) ==
    LET total_size == SeqSum([p \in DOMAIN fc |-> fc[p].size], DOMAIN fc) IN
    IF total_size <= max_size THEN [fc |-> fc, disk |-> d]
    ELSE evict_loop(fc, d, by_latest_accessed(fc, DOMAIN fc), 0, total_size - max_size)

evict_if_needed(fc, d, max_size) ==
    LET total_size == SeqSum([p \in DOMAIN fc |-> fc[p].size], DOMAIN fc) IN
    IF total_size <= max_size THEN [fc |-> fc, disk |-> d]
    ELSE evict_loop(fc, d, by_last_accessed(fc, DOMAIN fc), 0, total_size - max_size)

\* get_or_fetch with the answer of data_fn (None when the download fails).
\* `fetched` tells whether data_fn was called.
get_or_fetch(fc, d, max_size, path, expected_size, data) ==
    LET hc == has_cached(d, path, expected_size) IN
    IF IsSome(hc.hit)
    THEN [ok |-> TRUE, fc |-> touch(fc, path), disk |-> d,
          local_path |-> Unwrap(hc.hit), fetched |-> FALSE]
    ELSE IF ~IsSome(data)
    THEN [ok |-> FALSE, fc |-> fc, disk |-> hc.disk, local_path |-> <<>>, fetched |-> TRUE]
    ELSE LET st == store(hc.disk, path, Unwrap(data)) IN
         IF ~st.ok
         THEN [ok |-> FALSE, fc |-> fc, disk |-> st.disk, local_path |-> <<>>,
               fetched |-> TRUE]
         ELSE LET inserted == MapPut(fc, path,
                                     [local_path |-> path_to_local(path),
                                      size |-> Len(Unwrap(data)),
                                      last_accessed |-> now(fc, path)])
                  ev == evict_if_needed(inserted, st.disk, max_size)
              IN [ok |-> TRUE, fc |-> ev.fc, disk |-> ev.disk,
                  local_path |-> path_to_local(path), fetched |-> TRUE]

FileCache_invalidate(fc, d, path) ==
    [fc |-> MapDel(fc, path), disk |-> remove_file(d, path_to_local(path)).disk]

----------------------------------------------------------------------------
(* fs/b2fs.rs : B2Filesystem.  A handler is a function of the adapter's    *)
(* state `c` and its arguments; `net` is the set of REST calls of this      *)
(* invocation that fail with an API or network error.  c.held is the set    *)
(* of mutexes held, c.rest_held the mutexes held at some REST call.         *)

Ctx(it, mc, fc, ht, d, bucket, rr) ==
    [it |-> it, mc |-> mc, fc |-> fc, ht |-> ht, disk |-> d, remote |-> bucket,
     rr |-> rr, held |-> {}, rest_held |-> {}, rest_calls |-> 0, reply |-> <<>>]

Lock(c, m) == [c EXCEPT !.held = @ \cup {m}]

Unlock(c, m) == [c EXCEPT !.held = @ \ {m}]

\* runtime.block_on(b2_client. ...): a REST call is made.
Rest(c) == [c EXCEPT !.rest_held = @ \cup c.held, !.rest_calls = @ + 1]

\* reply.*(...) followed by the return, which drops every guard.
Reply(c, r) == [c EXCEPT !.reply = r, !.held = {}]

Errno(e) == [kind |-> "error", errno |-> e]

DOT == <<".">>

DOTDOT == <<".", ".">>

SuppressedExact ==
    { <<".", "D", "S", "_", "S", "t", "o", "r", "e">>,
      <<".", "l", "o", "c", "a", "l", "i", "z", "e", "d">>,
      <<".", "h", "i", "d", "d", "e", "n">>,
      <<".", "S", "p", "o", "t", "l", "i", "g", "h", "t", "-", "V", "1", "0", "0">>,
      <<".", "T", "r", "a", "s", "h", "e", "s">>,
      <<".", "f", "s", "e", "v", "e", "n", "t", "s", "d">>,
      <<".", "T", "e", "m", "p", "o", "r", "a", "r", "y", "I", "t", "e", "m", "s">>,
      <<".", "V", "o", "l", "u", "m", "e", "I", "c", "o", "n", ".", "i", "c", "n", "s">>,
      <<"I", "c", "o", "n", "\r">> }

is_suppressed_exact(name) == name \in SuppressedExact

is_suppressed_name(name) ==
    \/ name \in SuppressedExact
    \/ starts_with(name, <<".", "_">>)
    \/ starts_with(name, <<".", "c", "o", "m", ".", "a", "p", "p", "l", "e", ".">>)

\* metadata_cache.insert_file_info with what the store reported.
CacheFileInfo(c, ino, file_info) ==
    [c EXCEPT !.mc = insert_file_info(@, ino, file_info),
              !.rr = MapPut(@, ino, file_info.content_length)]

\* res is "ok" with the Option<FileInfo>, or "err" for Err(()).
fetch_file_info_from_b2(c, path, fail) ==
    [c    |-> Rest(c),
     res  |-> IF fail THEN "err" ELSE "ok",
     info |-> IF fail THEN None ELSE get_file_info(c.remote, path)]

is_b2_directory(c, path, fail) ==
    LET prefix == IF ends_with_slash(path) THEN path ELSE path \o <<SLASH>> IN
    [c      |-> Rest(c),
     is_dir |-> IF fail THEN FALSE
                ELSE Len(b2_list_file_names(c.remote, Some(prefix), Some(SLASH))) > 0]

get_attr_for_inode(c, ino, net) ==
    IF ino = ROOT_INO THEN [c |-> c, attr |-> Some(directory_attr(ino))]
    ELSE IF IsSome(get_attr(c.mc, ino)) THEN [c |-> c, attr |-> get_attr(c.mc, ino)]
    ELSE IF ~IsSome(get_path(c.it, ino)) THEN [c |-> c, attr |-> None]
    ELSE LET f == fetch_file_info_from_b2(c, Unwrap(get_path(c.it, ino)), "info" \in net) IN
         IF f.res = "ok" /\ IsSome(f.info)
         THEN [c |-> CacheFileInfo(f.c, ino, Unwrap(f.info)),
               attr |-> Some(b2_file_to_attr(ino, Unwrap(f.info)))]
         ELSE [c |-> f.c, attr |-> Some(directory_attr(ino))]

extract_entry_name(file_name, prefix) ==
    LET name == IF IsSome(prefix) /\ starts_with(file_name, Unwrap(prefix))
                THEN SubSeq(file_name, Len(Unwrap(prefix)) + 1, Len(file_name))
                ELSE file_name
    IN IF find_slash(name) # 0 THEN SubSeq(name, 1, find_slash(name)) ELSE name

cache_directory_entries(c, parent_ino, entries) ==
    [c EXCEPT !.mc = insert_dir(@, parent_ino, entries)]

\* The loop of list_directory over the files of the listing.
RECURSIVE list_directory_loop(_, _, _, _)
list_directory_loop(c, files, prefix, entries) ==
    IF files = <<>> THEN [c |-> c, entries |-> entries]
    ELSE LET file == Head(files)
             entry_name == extract_entry_name(file.file_name, prefix)
         IN IF entry_name = <<>> \/ entry_name = DOT \/ entry_name = DOTDOT
            THEN list_directory_loop(c, Tail(files), prefix, entries)
            ELSE LET full_path ==
                         normalize_path(
                             IF IsSome(prefix)
                             THEN trim_end_matches(Unwrap(prefix)) \o <<SLASH>>
                                      \o trim_start_matches(entry_name)
                             ELSE entry_name)
                     loc == lookup_or_create(c.it, full_path)
                     c1 == CacheFileInfo([c EXCEPT !.it = loc.table], loc.ino, file)
                     kind == IF is_directory(file) THEN "Directory" ELSE "RegularFile"
                 IN list_directory_loop(c1, Tail(files), prefix,
                        Append(entries, [name |-> trim_end_matches(entry_name),
                                         ino |-> loc.ino, kind |-> kind]))

list_directory(c, parent_ino, net) ==
    IF IsSome(get_dir(c.mc, parent_ino))
    THEN [c |-> c, entries |-> Unwrap(get_dir(c.mc, parent_ino))]
    ELSE LET entries == << [name |-> DOT, ino |-> parent_ino, kind |-> "Directory"],
                           [name |-> DOTDOT, ino |-> get_parent_ino(c.it, parent_ino),
                            kind |-> "Directory"] >>
             p == get_path(c.it, parent_ino)
         IN IF ~IsSome(p)
            THEN [c |-> cache_directory_entries(c, parent_ino, entries), entries |-> entries]
            ELSE LET prefix == IF Unwrap(p) = <<>> THEN None
                               ELSE Some(Unwrap(p) \o <<SLASH>>)
                     c1 == Rest(c)
                     r == IF "list" \in net THEN [c |-> c1, entries |-> entries]
                          ELSE list_directory_loop(
                                   c1, list_file_names(c1.remote, prefix, Some(SLASH)),
                                   prefix, entries)
                 IN [c |-> cache_directory_entries(r.c, parent_ino, r.entries),
                     entries |-> r.entries]

fs_getattr(c, ino, net) ==
    LET r == get_attr_for_inode(c, ino, net) IN
    IF IsSome(r.attr)
    THEN Reply(r.c, [kind |-> "attr", attr |-> Unwrap(r.attr)])
    ELSE Reply(r.c, Errno("ENOENT"))

fs_lookup(c, parent, name, net) ==
    LET pp == get_path(c.it, parent)
        parent_path == IF IsSome(pp) THEN Unwrap(pp) ELSE <<>>
        child_path == child_path_of(parent_path, name)
    IN IF is_suppressed_name(name)
       THEN Reply([c EXCEPT !.mc = insert_negative(@, child_path)], Errno("ENOENT"))
       ELSE IF ~IsSome(pp) THEN Reply(c, Errno("ENOENT"))
       ELSE IF is_negative_cached(c.mc, child_path) THEN Reply(c, Errno("ENOENT"))
       ELSE LET loc == lookup_or_create(c.it, child_path)
                ino == loc.ino
                c1 == [c EXCEPT !.it = loc.table]
            IN IF IsSome(get_attr(c1.mc, ino))
               THEN Reply(c1, [kind |-> "entry", attr |-> Unwrap(get_attr(c1.mc, ino))])
               ELSE LET f == fetch_file_info_from_b2(c1, child_path, "info" \in net) IN
                    IF f.res = "err"
                    THEN Reply(f.c, [kind |-> "entry", attr |-> directory_attr(ino)])
                    ELSE IF IsSome(f.info)
                    THEN Reply(CacheFileInfo(f.c, ino, Unwrap(f.info)),
                               [kind |-> "entry",
                                attr |-> b2_file_to_attr(ino, Unwrap(f.info))])
                    ELSE LET dr == is_b2_directory(f.c, child_path, "dir" \in net) IN
                         IF dr.is_dir
                         THEN Reply([dr.c EXCEPT !.mc = insert_attr(@, ino, directory_attr(ino))],
                                    [kind |-> "entry", attr |-> directory_attr(ino)])
                         ELSE Reply([dr.c EXCEPT !.mc = insert_negative(@, child_path)],
                                    Errno("ENOENT"))

fs_readdir(c, ino, offset, net) ==
    IF ~IsSome(get_path(c.it, ino)) /\ ino # ROOT_INO THEN Reply(c, Errno("ENOENT"))
    ELSE LET r == list_directory(c, ino, net) IN
         Reply(r.c, [kind |-> "dir",
                     entries |-> SubSeq(r.entries, offset + 1, Len(r.entries))])

\* open, from the handle table lock on: the handle on the local file.
open_handle(c, ino, path, flags, local_path) ==
    LET c1 == Lock(c, "handle_table")
        o == IF flags.write
             THEN open_write(c.ht, c.disk, ino, path, local_path)
             ELSE open_read(c.ht, c.disk, ino, path, local_path)
    IN IF o.ok
       THEN Reply([c1 EXCEPT !.ht = o.ht], [kind |-> "opened", fh |-> o.fh])
       ELSE Reply(c1, Errno("EIO"))

\* open, after file_cache.get_or_fetch has answered g.
open_fetched(c, ino, path, flags, g) ==
    IF g.ok
    THEN open_handle([c EXCEPT !.fc = g.fc, !.disk = g.disk,
                               !.rest_held = IF g.fetched THEN @ \cup c.held ELSE @],
                     ino, path, flags, g.local_path)
    ELSE Reply([c EXCEPT !.fc = g.fc, !.disk = g.disk,
                         !.rest_held = IF g.fetched THEN @ \cup c.held ELSE @],
               Errno("EIO"))

\* open without O_TRUNC, once the expected size is known.
open_sized(c, ino, path, flags, size, net) ==
    open_fetched(c, ino, path, flags,
                 get_or_fetch(c.fc, c.disk, MaxCacheSize, path, size,
                              IF "download" \in net THEN None
                              ELSE download_file(c.remote, path)))

\* open with O_TRUNC: an empty temp file instead of a download.
open_trunc(c, ino, path, flags, tmp) ==
    open_handle([c EXCEPT !.disk = tmp.disk], ino, path, flags, tmp.path)

\* open without O_TRUNC and without a cached attribute: f is the store's answer.
open_probed(f, ino, path, flags, net) ==
    open_sized(f.c, ino, path, flags,
               IF f.res = "ok" /\ IsSome(f.info) THEN Unwrap(f.info).content_length ELSE 0,
               net)

\* open: flags.write is (flags & O_ACCMODE) != O_RDONLY, flags.trunc is O_TRUNC.
fs_open(c, ino, flags, net) ==
    IF ~IsSome(get_path(c.it, ino)) THEN Reply(c, Errno("ENOENT"))
    ELSE IF flags.trunc
    THEN open_trunc(c, ino, Unwrap(get_path(c.it, ino)), flags, new_temp_file(c.disk))
    ELSE IF IsSome(get_attr(c.mc, ino))
    THEN open_sized(c, ino, Unwrap(get_path(c.it, ino)), flags,
                    Unwrap(get_attr(c.mc, ino)).size, net)
    ELSE open_probed(fetch_file_info_from_b2(c, Unwrap(get_path(c.it, ino)), "info" \in net),
                     ino, Unwrap(get_path(c.it, ino)), flags, net)

fs_create(c, parent, name) ==
    IF is_suppressed_name(name) THEN Reply(c, Errno("EACCES"))
    ELSE IF ~IsSome(get_path(c.it, parent)) THEN Reply(c, Errno("ENOENT"))
    ELSE
    LET child_path == child_path_of(Unwrap(get_path(c.it, parent)), name)
        tmp == new_temp_file(c.disk)
        loc == lookup_or_create(c.it, child_path)
        ino == loc.ino
        c1 == [c EXCEPT !.disk = tmp.disk, !.it = loc.table,
                        !.mc = remove_negative(@, child_path)]
        c2 == Lock(c1, "handle_table")
        o == open_write(c2.ht, c2.disk, ino, child_path, tmp.path)
    IN IF ~o.ok THEN Reply(c2, Errno("EIO"))
       ELSE LET attr == stub_file_attr(ino, 0)
                mc1 == insert_attr(c2.mc, ino, attr)
            IN Reply([c2 EXCEPT !.ht = o.ht, !.mc = MetadataCache_invalidate(mc1, parent)],
                     [kind |-> "created", attr |-> attr, fh |-> o.fh])

fs_write(c, fh, offset, data) ==
    LET c1 == Lock(c, "handle_table")
        h == HandleTable_get(c1.ht, fh)
    IN IF ~IsSome(h) THEN Reply(c1, Errno("EBADF"))
       ELSE IF ~Unwrap(h).is_write THEN Reply(c1, Errno("EIO"))
       ELSE LET file == Unwrap(h).file IN
            Reply([c1 EXCEPT !.disk.files[file] = write_at(@, offset, data),
                             !.ht.handles[fh].is_dirty = TRUE],
                  [kind |-> "written", size |-> Len(data)])

fs_read(c, fh, offset, size) ==
    LET c1 == Lock(c, "handle_table")
        h == HandleTable_get(c1.ht, fh)
    IN IF ~IsSome(h) THEN Reply(c1, Errno("EBADF"))
       ELSE Reply(c1, [kind |-> "data",
                       data |-> read_at(c1.disk.files[Unwrap(h).file], offset, size)])

\* release: ino is the inode the kernel holds for fh.
fs_release(c, ino, fh, net) ==
    LET c1 == Lock(c, "handle_table")
        cl == HandleTable_close(c1.ht, fh)
        c2 == [c1 EXCEPT !.ht = cl.ht]
    IN IF ~IsSome(cl.handle) THEN Reply(c2, [kind |-> "ok"])
       ELSE IF ~Unwrap(cl.handle).is_dirty THEN Reply(c2, [kind |-> "ok"])
       ELSE LET upload_path == Unwrap(cl.handle).path
                local_path == Unwrap(cl.handle).local_path
            IN IF ~is_file(c2.disk, local_path) THEN Reply(c2, [kind |-> "ok"])
               ELSE LET data == c2.disk.files[c2.disk.links[local_path]]
                        c3 == Rest(c2)
                    IN IF "upload" \in net THEN Reply(c3, [kind |-> "ok"])
                       ELSE LET up == upload_file(c3.remote, upload_path, data)
                                c4 == CacheFileInfo([c3 EXCEPT !.remote = up.bucket],
                                                    ino, up.info)
                                parent_ino == get_parent_ino(c4.it, ino)
                                inv == FileCache_invalidate(c4.fc, c4.disk, upload_path)
                            IN Reply([c4 EXCEPT !.mc = MetadataCache_invalidate(@, parent_ino),
                                                !.fc = inv.fc, !.disk = inv.disk],
                                     [kind |-> "ok"])

\* setattr, from get_attr_for_inode's answer on.
setattr_reply(r, ino, size) ==
    IF ~IsSome(r.attr) THEN Reply(r.c, Errno("ENOENT"))
    ELSE IF IsSome(size)
    THEN Reply([r.c EXCEPT !.mc = insert_attr(@, ino, [Unwrap(r.attr) EXCEPT
                                                          !.size = Unwrap(size)])],
               [kind |-> "attr", attr |-> [Unwrap(r.attr) EXCEPT !.size = Unwrap(size)]])
    ELSE Reply(r.c, [kind |-> "attr", attr |-> Unwrap(r.attr)])

\* setattr: size and fh are Options.
fs_setattr(c, ino, size, fh, net) ==
    setattr_reply(
        get_attr_for_inode(
            IF size = Some(0) /\ IsSome(fh) /\ IsSome(HandleTable_get(c.ht, Unwrap(fh)))
            THEN [c EXCEPT !.disk.files[c.ht.handles[Unwrap(fh)].file] =
                               IF c.ht.handles[Unwrap(fh)].is_write THEN <<>> ELSE @,
                           !.ht.handles[Unwrap(fh)].is_dirty = TRUE]
            ELSE c,
            ino, net),
        ino, size)

cleanup_after_delete(c, path, parent_ino) ==
    LET rm == remove_by_path(c.it, path)
        mc1 == IF IsSome(rm.ino) THEN MetadataCache_invalidate(c.mc, Unwrap(rm.ino))
               ELSE c.mc
        inv == FileCache_invalidate(c.fc, c.disk, path)
    IN [c EXCEPT !.it = rm.table,
                 !.mc = MetadataCache_invalidate(mc1, parent_ino),
                 !.fc = inv.fc, !.disk = inv.disk]

\* A variant of unlink_local that leaves the inode of the path in the table.
unlink_local_keeps_inode(c, parent, child_path) ==
    LET inv == FileCache_invalidate(c.fc, c.disk, child_path) IN
    Reply([Lock(c, "inode_table") EXCEPT
               !.mc = MetadataCache_invalidate(@, parent),
               !.fc = inv.fc, !.disk = inv.disk],
          [kind |-> "ok"])

\* unlink, the file is not in the store: the local state is cleaned up.
unlink_local(c, parent, child_path) ==
    LET inv == FileCache_invalidate(c.fc, c.disk, child_path) IN
    Reply([Lock(c, "inode_table") EXCEPT
               !.it = remove_by_path(@, child_path).table,
               !.mc = MetadataCache_invalidate(@, parent),
               !.fc = inv.fc, !.disk = inv.disk],
          [kind |-> "ok"])

\* unlink, after hide_file or delete_file has answered r.
unlink_removed(c, parent, child_path, r, fail) ==
    IF fail \/ ~r.ok THEN Reply(c, Errno("EIO"))
    ELSE Reply(cleanup_after_delete([c EXCEPT !.remote = r.bucket], child_path, parent),
               [kind |-> "ok"])

\* unlink, from fetch_file_info_from_b2's answer on.
unlink_probed(f, parent, child_path, net) ==
    IF f.res = "err" THEN Reply(f.c, Errno("EIO"))
    ELSE IF ~IsSome(f.info) THEN unlink_local(f.c, parent, child_path)
    ELSE IF ~IsSome(Unwrap(f.info).file_id)
    THEN unlink_removed(Rest(f.c), parent, child_path,
                        hide_file(f.c.remote, child_path), "hide" \in net)
    ELSE unlink_removed(Rest(f.c), parent, child_path,
                        delete_file(f.c.remote, child_path, Unwrap(Unwrap(f.info).file_id)),
                        "delete" \in net)

fs_unlink(c, parent, name, net) ==
    IF ~IsSome(get_path(c.it, parent)) THEN Reply(c, Errno("ENOENT"))
    ELSE unlink_probed(
             fetch_file_info_from_b2(
                 c, child_path_of(Unwrap(get_path(c.it, parent)), name), "info" \in net),
             parent, child_path_of(Unwrap(get_path(c.it, parent)), name), net)

\* rmdir, the folder marker: deleted when the store shows it, result ignored.
rmdir_marker(f, parent, dir_path, net) ==
    cleanup_after_delete(
        IF f.res = "ok" /\ IsSome(f.info) /\ IsSome(Unwrap(f.info).file_id)
        THEN IF "delete" \in net THEN Rest(f.c)
             ELSE [Rest(f.c) EXCEPT
                       !.remote = delete_file(@, dir_path \o <<SLASH>>,
                                              Unwrap(Unwrap(f.info).file_id)).bucket]
        ELSE f.c,
        dir_path, parent)

\* rmdir, once the path of the directory is known.
rmdir_path(c, parent, dir_path, net) ==
    LET prefix == dir_path \o <<SLASH>>
        files == b2_list_file_names(c.remote, Some(prefix), None)
    IN IF "list" \in net THEN Reply(Rest(c), Errno("EIO"))
       ELSE IF \E i \in 1..Len(files) : files[i].file_name # prefix
       THEN Reply(Rest(c), Errno("ENOTEMPTY"))
       ELSE Reply(rmdir_marker(fetch_file_info_from_b2(Rest(c), prefix, "info2" \in net),
                               parent, dir_path, net),
                  [kind |-> "ok"])

fs_rmdir(c, parent, name, net) ==
    IF ~IsSome(get_path(c.it, parent)) THEN Reply(c, Errno("ENOENT"))
    ELSE rmdir_path(c, parent, child_path_of(Unwrap(get_path(c.it, parent)), name), net)

\* A variant of mkdir_path that keeps the cached listing of the parent.
mkdir_path_keeps_listing(c, parent, dir_path, net) ==
    LET loc == lookup_or_create(c.it, dir_path) IN
    IF "create_folder" \in net THEN Reply(Rest(c), Errno("EIO"))
    ELSE Reply([Rest(c) EXCEPT
                    !.remote = create_folder(@, dir_path).bucket,
                    !.it = loc.table,
                    !.mc = remove_negative(
                               insert_attr(@, loc.ino, directory_attr(loc.ino)),
                               dir_path)],
               [kind |-> "entry", attr |-> directory_attr(loc.ino)])

\* mkdir, once the path of the directory is known.
mkdir_path(c, parent, dir_path, net) ==
    LET loc == lookup_or_create(c.it, dir_path) IN
    IF "create_folder" \in net THEN Reply(Rest(c), Errno("EIO"))
    ELSE Reply([Rest(c) EXCEPT
                    !.remote = create_folder(@, dir_path).bucket,
                    !.it = loc.table,
                    !.mc = remove_negative(
                               MetadataCache_invalidate(
                                   insert_attr(@, loc.ino, directory_attr(loc.ino)), parent),
                               dir_path)],
               [kind |-> "entry", attr |-> directory_attr(loc.ino)])

fs_mkdir(c, parent, name, net) ==
    IF ~IsSome(get_path(c.it, parent)) THEN Reply(c, Errno("ENOENT"))
    ELSE mkdir_path(c, parent, child_path_of(Unwrap(get_path(c.it, parent)), name), net)

\* rename, the local state after the copy: inode table and caches.
rename_update(c, parent, newparent, old_path, new_path) ==
    LET old_ino == get_ino(c.it, old_path)
        inv == FileCache_invalidate(c.fc, c.disk, old_path)
    IN Reply([c EXCEPT
                  !.it = IF IsSome(old_ino)
                         THEN InodeTable_rename(@, Unwrap(old_ino), new_path)
                         ELSE @,
                  !.mc = MetadataCache_invalidate(MetadataCache_invalidate(@, parent),
                                                  newparent),
                  !.fc = inv.fc, !.disk = inv.disk],
             [kind |-> "ok"])

\* rename, the server-side copy and the delete of the original.
rename_file(c, parent, newparent, old_path, new_path, source_file_id, net) ==
    LET cp == copy_file(c.remote, source_file_id, new_path) IN
    IF "copy" \in net \/ ~cp.ok THEN Reply(Rest(c), Errno("EIO"))
    ELSE rename_update(
             [Rest(c) EXCEPT
                  !.remote = IF "delete" \in net THEN cp.bucket
                             ELSE delete_file(cp.bucket, old_path, source_file_id).bucket],
             parent, newparent, old_path, new_path)

\* rename, the source is no file: a directory is not renamed.
rename_missing(f2) ==
    IF f2.res = "ok" /\ IsSome(f2.info)
    THEN Reply(f2.c, Errno("ENOSYS"))
    ELSE Reply(f2.c, Errno("ENOENT"))

\* rename, from fetch_file_info_from_b2's answer for the source on.
rename_probed(f, parent, newparent, old_path, new_path, net) ==
    IF f.res = "err" THEN Reply(f.c, Errno("EIO"))
    ELSE IF ~IsSome(f.info)
    THEN rename_missing(fetch_file_info_from_b2(f.c, old_path \o <<SLASH>>, "info2" \in net))
    ELSE IF ~IsSome(Unwrap(f.info).file_id) THEN Reply(f.c, Errno("EIO"))
    ELSE rename_file(f.c, parent, newparent, old_path, new_path,
                     Unwrap(Unwrap(f.info).file_id), net)

\* rename, once both paths are known.
rename_paths(c, parent, newparent, old_path, new_path, net) ==
    rename_probed(fetch_file_info_from_b2(c, old_path, "info" \in net),
                  parent, newparent, old_path, new_path, net)

fs_rename(c, parent, name, newparent, newname, net) ==
    IF ~IsSome(get_path(c.it, parent)) THEN Reply(c, Errno("ENOENT"))
    ELSE IF ~IsSome(get_path(c.it, newparent)) THEN Reply(c, Errno("ENOENT"))
    ELSE rename_paths(c, parent, newparent,
                      child_path_of(Unwrap(get_path(c.it, parent)), name),
                      child_path_of(Unwrap(get_path(c.it, newparent)), newname), net)

----------------------------------------------------------------------------
(* mount/manager.rs: the mount manager.  Every connection of the control   *)
(* channel runs in a task of its own (ipc/server.rs), so calls of mount     *)
(* and unmount interleave at their await points.                            *)

Callers == {"p1", "p2"}

BucketIds == {"k1", "k2"}

Mountpoints == {"m1", "m2"}

Idle == [pc |-> "idle"]

MountManager_new == EmptyMap

\* The sessions of a bucket whose blocking task has not finished.
running_sessions(ts, bucket_id) ==
    {t \in 1..Len(ts) : ts[t].bucket_id = bucket_id /\ ts[t].running}

InitMount ==
    /\ mounts = MountManager_new
    /\ tasks = <<>>
    /\ calls = [p \in Callers |-> Idle]

\* mount, up to the end of the read-locked check of the map.
MountCheck(p, bucket_id, mountpoint) ==
    /\ calls[p] = Idle
    /\ calls' = [calls EXCEPT ![p] =
                    IF bucket_id \in DOMAIN mounts THEN Idle
                    ELSE [pc |-> "spawn", bucket_id |-> bucket_id,
                          mountpoint |-> mountpoint]]
    /\ UNCHANGED <<mounts, tasks>>

\* mount: spawn_blocking of the session, then the sleep of 100 ms begins.
MountSpawn(p) ==
    /\ calls[p].pc = "spawn"
    /\ Len(tasks) < MaxTasks
    /\ tasks' = Append(tasks, [bucket_id |-> calls[p].bucket_id,
                               mountpoint |-> calls[p].mountpoint,
                               running |-> TRUE])
    /\ calls' = [calls EXCEPT ![p] = [@ EXCEPT !.pc = "sleep"] @@ [task |-> Len(tasks) + 1]]
    /\ UNCHANGED mounts

\* mount, after the sleep: a finished task is an error, a running one is
\* stored under the write lock.
MountInsert(p) ==
    /\ calls[p].pc = "sleep"
    /\ mounts' = IF tasks[calls[p].task].running
                 THEN MapPut(mounts, calls[p].bucket_id,
                             [mountpoint |-> calls[p].mountpoint, task |-> calls[p].task])
                 ELSE mounts
    /\ calls' = [calls EXCEPT ![p] = Idle]
    /\ UNCHANGED tasks

\* fuser::mount2 returns in the blocking task: the mount failed, or the
\* volume was unmounted from outside.
SessionEnd(t) ==
    /\ tasks[t].running
    /\ tasks' = [tasks EXCEPT ![t].running = FALSE]
    /\ UNCHANGED <<mounts, calls>>

\* unmount, the write-locked removal of the handle.
UnmountRemove(p, bucket_id) ==
    /\ calls[p] = Idle
    /\ mounts' = MapDel(mounts, bucket_id)
    /\ calls' = [calls EXCEPT ![p] =
                    IF bucket_id \in DOMAIN mounts
                    THEN [pc |-> "umount", bucket_id |-> bucket_id,
                          mountpoint |-> mounts[bucket_id].mountpoint,
                          task |-> mounts[bucket_id].task]
                    ELSE Idle]
    /\ UNCHANGED tasks

\* unmount, the umount command: on success the session of the handle ends,
\* on failure (a busy volume) it goes on.
UnmountCommand(p, success) ==
    /\ calls[p].pc = "umount"
    /\ tasks' = IF success THEN [tasks EXCEPT ![calls[p].task].running = FALSE] ELSE tasks
    /\ calls' = [calls EXCEPT ![p].pc = "join"]
    /\ UNCHANGED mounts

\* unmount, the join of the task with its timeout of 5 s: unmount returns
\* Ok whether the task has finished or the timeout has passed.
UnmountJoin(p) ==
    /\ calls[p].pc = "join"
    /\ calls' = [calls EXCEPT ![p] = Idle]
    /\ UNCHANGED <<mounts, tasks>>

Mount == \E p \in Callers, bucket_id \in BucketIds, mountpoint \in Mountpoints :
             MountCheck(p, bucket_id, mountpoint) /\ UNCHANGED <<inode_table, fsvars, compvars>>

Spawn == \E p \in Callers : MountSpawn(p) /\ UNCHANGED <<inode_table, fsvars, compvars>>

Insert == \E p \in Callers : MountInsert(p) /\ UNCHANGED <<inode_table, fsvars, compvars>>

EndSession == \E t \in 1..Len(tasks) : SessionEnd(t) /\ UNCHANGED <<inode_table, fsvars, compvars>>

Unmount == \E p \in Callers, bucket_id \in BucketIds :
               UnmountRemove(p, bucket_id) /\ UNCHANGED <<inode_table, fsvars, compvars>>

Umount == \E p \in Callers, success \in BOOLEAN :
              UnmountCommand(p, success) /\ UNCHANGED <<inode_table, fsvars, compvars>>

Join == \E p \in Callers : UnmountJoin(p) /\ UNCHANGED <<inode_table, fsvars, compvars>>

----------------------------------------------------------------------------
(* cache/file_cache.rs : get_or_fetch step by step, as concurrent threads   *)
(* run it.  Each filesystem call of has_cached and store is one step.       *)

Threads == {"t1", "t2"}

\* tempfile::NamedTempFile::new_in(parent): an empty file under a fresh name.
store_temp_in_place(d, local_path) ==
    [disk |-> write_new(d, local_path, <<>>), path |-> local_path]

store_temp(d, local_path) == new_temp_file(d)

\* One write of write_all: the next byte of the data reaches the file.
write_chunk(d, local_path, byte) ==
    [d EXCEPT !.files[d.links[local_path]] = Append(@, byte)]

\* NamedTempFile::persist: rename(tmp, local_path), replacing a file there.
persist(d, tmp, local_path) ==
    IF is_dir(d, local_path) THEN [ok |-> FALSE, disk |-> remove_file(d, tmp).disk]
    ELSE IF tmp = local_path THEN [ok |-> TRUE, disk |-> d]
    ELSE [ok |-> TRUE,
          disk |-> [d EXCEPT !.links = MapDel(MapPut(@, local_path, d.links[tmp]), tmp)]]

\* The entry get_or_fetch records, followed by evict_if_needed.
track(fc, d, max_size, path, data) ==
    evict_if_needed(MapPut(fc, path, [local_path |-> path_to_local(path),
                                      size |-> Len(data),
                                      last_accessed |-> now(fc, path)]),
                    d, max_size)


----------------------------------------------------------------------------
(* b2/client.rs : with_retry, log_error and the error texts of the          *)
(* operations.  A text is the sequence of its characters.                   *)

MAX_RETRIES == 3

MAX_ERROR_HISTORY == 10

HEALTH_HEALTHY == 0

HEALTH_DEGRADED == 1

HEALTH_UNHEALTHY == 2

backoff_ms == <<500, 1000, 2000>>

\* str::contains
contains(text, pattern) ==
    \E i \in 0..(Len(text) - Len(pattern)) : SubSeq(text, i + 1, i + Len(pattern)) = pattern

\* The Display of reqwest's StatusCode: the number and its canonical reason.
status_text(status) ==
    CASE status = 400 -> <<"4", "0", "0", " ", "B", "a", "d", " ", "R", "e", "q", "u", "e", "s", "t">>
      [] status = 401 -> <<"4", "0", "1", " ", "U", "n", "a", "u", "t", "h", "o", "r", "i", "z", "e", "d">>
      [] status = 403 -> <<"4", "0", "3", " ", "F", "o", "r", "b", "i", "d", "d", "e", "n">>
      [] status = 404 -> <<"4", "0", "4", " ", "N", "o", "t", " ", "F", "o", "u", "n", "d">>
      [] status = 408 -> <<"4", "0", "8", " ", "R", "e", "q", "u", "e", "s", "t", " ", "T", "i", "m", "e", "o", "u", "t">>
      [] status = 429 -> <<"4", "2", "9", " ", "T", "o", "o", " ", "M", "a", "n", "y", " ", "R", "e", "q", "u", "e", "s", "t", "s">>
      [] status = 500 -> <<"5", "0", "0", " ", "I", "n", "t", "e", "r", "n", "a", "l", " ", "S", "e", "r", "v", "e", "r", " ", "E", "r", "r", "o", "r">>
      [] status = 502 -> <<"5", "0", "2", " ", "B", "a", "d", " ", "G", "a", "t", "e", "w", "a", "y">>
      [] status = 503 -> <<"5", "0", "3", " ", "S", "e", "r", "v", "i", "c", "e", " ", "U", "n", "a", "v", "a", "i", "l", "a", "b", "l", "e">>

\* The answers of the server to one request: a response or no response.
Statuses == {400, 401, 403, 404, 408, 429, 500, 502, 503}

Bodies == {<<>>}

NetworkFailures == {"connect", "timeout"}

Answers ==
    {[kind |-> "ok"]}
        \cup {[kind |-> "status", status |-> st, body |-> b] : st \in Statuses, b \in Bodies}
        \cup {[kind |-> "network", failure |-> k] : k \in NetworkFailures}

\* The text of the error download_file returns: anyhow's Display shows the
\* context given to the failed send, not the error of the HTTP library.
download_file_error(answer) ==
    IF answer.kind = "network"
    THEN <<"F", "a", "i", "l", "e", "d", " ", "t", "o", " ", "d", "o", "w", "n", "l", "o", "a", "d", " ", "f", "i", "l", "e", " ", "f", "r", "o", "m", " ", "B", "2">>
    ELSE <<"F", "a", "i", "l", "e", "d", " ", "t", "o", " ", "d", "o", "w", "n", "l", "o", "a", "d", " ", "f", "i", "l", "e", " ", "(">> \o status_text(answer.status) \o <<")", ":", " ">> \o answer.body

is_auth_expired(error_str) == contains(error_str, <<"4", "0", "1">>)

is_rate_limited(error_str) == contains(error_str, <<"4", "2", "9">>)

is_server_error(error_str) ==
    \/ contains(error_str, <<"5", "0", "0">>)
    \/ contains(error_str, <<"5", "0", "3">>)
    \/ contains(error_str, <<"4", "0", "8">>)

is_network(error_str) ==
    \/ contains(error_str, <<"c", "o", "n", "n", "e", "c", "t">>)
    \/ contains(error_str, <<"t", "i", "m", "e", "o", "u", "t">>)
    \/ contains(error_str, <<"n", "e", "t", "w", "o", "r", "k">>)

is_retryable(error_str) ==
    \/ is_auth_expired(error_str)
    \/ is_rate_limited(error_str)
    \/ is_server_error(error_str)
    \/ is_network(error_str)

\* The entry carries no timestamp here: the model has no clock.
log_error(log, operation, path, error) ==
    Append(IF Len(log) >= MAX_ERROR_HISTORY THEN Tail(log) ELSE log,
           [operation |-> operation, path |-> path, error |-> error])

backoff_flat(attempt) == 500

\* backoff_ms.get(attempt).copied().unwrap_or(2000)
backoff_delay(attempt) ==
    IF attempt + 1 \in DOMAIN backoff_ms THEN backoff_ms[attempt + 1] ELSE 2000

\* B2Client as authorize builds it, no call under way.
Retry_new ==
    [pc |-> "idle", operation |-> "", path |-> <<>>, attempt |-> 0, attempts |-> 0,
     waits |-> <<>>, refreshes |-> 0, answer |-> [kind |-> "none"], result |-> "none",
     calls |-> 0, health |-> HEALTH_HEALTHY, error_log |-> <<>>, auth_token |-> 0]

\* with_retry is entered: `for attempt in 0..=MAX_RETRIES`
with_retry_enter(r, operation, path) ==
    [r EXCEPT !.pc = "attempt", !.operation = operation, !.path = path, !.attempt = 0,
              !.attempts = 0, !.waits = <<>>, !.refreshes = 0, !.answer = [kind |-> "none"],
              !.result = "none", !.calls = @ + 1]

\* The Ok arm of `match f().await`.
with_retry_ok(r) ==
    [r EXCEPT !.pc = "idle", !.result = "ok", !.health = HEALTH_HEALTHY]

\* The Err arm of `match f().await`, up to the next await or the return.
with_retry_err(r, error_str) ==
    IF ~is_retryable(error_str) \/ r.attempt = MAX_RETRIES
    THEN [r EXCEPT !.pc = "idle", !.result = "err",
                   !.health = IF is_network(error_str) THEN HEALTH_UNHEALTHY
                              ELSE IF is_rate_limited(error_str) THEN HEALTH_DEGRADED
                              ELSE @,
                   !.error_log = log_error(@, r.operation, r.path, error_str)]
    ELSE IF is_auth_expired(error_str) /\ r.attempt = 0
    THEN [r EXCEPT !.pc = "refresh_auth"]
    ELSE [r EXCEPT !.pc = "sleep"]

\* f().await with the answer of the server to download_file's request
with_retry_attempt(r, answer) ==
    LET s == [r EXCEPT !.attempts = @ + 1, !.answer = answer] IN
    IF answer.kind = "ok" THEN with_retry_ok(s)
    ELSE with_retry_err(s, download_file_error(answer))

\* self.refresh_auth().await, a failure of which is only logged
with_retry_refresh(r, refreshed) ==
    [r EXCEPT !.pc = "sleep", !.refreshes = @ + 1,
              !.auth_token = IF refreshed THEN @ + 1 ELSE @]

\* tokio::time::sleep(delay).await and the next turn of the loop
with_retry_sleep(r) ==
    [r EXCEPT !.pc = "attempt", !.waits = Append(@, backoff_delay(r.attempt)),
              !.attempt = @ + 1]

\* The text of the errors list_file_names returns.
list_file_names_error(answer) ==
    IF answer.kind = "network" THEN <<"F", "a", "i", "l", "e", "d", " ", "t", "o", " ", "l", "i", "s", "t", " ", "f", "i", "l", "e", "s">>
    ELSE IF answer.status = 401
    THEN <<"B", "2", " ", "a", "u", "t", "h", "o", "r", "i", "z", "a", "t", "i", "o", "n", " ", "e", "x", "p", "i", "r", "e", "d", ".", " ", "T", "o", "k", "e", "n", " ", "n", "e", "e", "d", "s", " ", "r", "e", "f", "r", "e", "s", "h", ".">>
    ELSE <<"F", "a", "i", "l", "e", "d", " ", "t", "o", " ", "l", "i", "s", "t", " ", "f", "i", "l", "e", "s", " ", "(">> \o status_text(answer.status) \o <<")", ":", " ">> \o answer.body

\* B2Client as authorize builds it and no call of the adapter under way.
\* `requests` and `failures` are history: the requests of the call and the
\* calls that returned an error.
Client_new ==
    [pc |-> "idle", operation |-> "", path |-> <<>>, start_file_name |-> 0,
     all_files |-> <<>>, requests |-> <<>>, result |-> "none", calls |-> 0,
     refreshes |-> 0, health |-> HEALTH_HEALTHY, error_log |-> <<>>, failures |-> <<>>]

client_call(cl, operation, path) ==
    [cl EXCEPT !.pc = operation, !.operation = operation, !.path = path,
               !.start_file_name = 0, !.all_files = <<>>, !.requests = <<>>,
               !.result = "none", !.calls = @ + 1, !.refreshes = 0]

client_ok(cl) == [cl EXCEPT !.pc = "idle", !.result = "ok"]

client_err(cl, error) ==
    [cl EXCEPT !.pc = "idle", !.result = "err",
               !.failures = Append(@, [operation |-> cl.operation, path |-> cl.path,
                                       error |-> error])]

\* One turn of the loop of list_file_names: the request for the page after
\* start_file_name and what follows from its answer.
list_file_names_page(cl, answer) ==
    LET page == cl.start_file_name + 1
        c1 == [cl EXCEPT !.requests = Append(@, [page |-> page, answer |-> answer])]
    IN IF answer.kind = "ok"
       THEN LET c2 == [c1 EXCEPT !.all_files = Append(@, page)] IN
            IF page < MaxPages THEN [c2 EXCEPT !.start_file_name = page] ELSE client_ok(c2)
       ELSE IF answer.kind = "status" /\ answer.status = 429
       THEN [c1 EXCEPT !.pc = "backing_off"]
       ELSE client_err(c1, list_file_names_error(answer))

\* download_file: one request.
download_file_request(cl, answer) ==
    LET c1 == [cl EXCEPT !.requests = Append(@, [page |-> 0, answer |-> answer])] IN
    IF answer.kind = "ok" THEN client_ok(c1)
    ELSE client_err(c1, download_file_error(answer))

----------------------------------------------------------------------------
(* ipc/protocol.rs, ipc/server.rs : the control channel.  A request line   *)
(* is the text between two newlines and whether its bytes are valid UTF-8; *)
(* the texts stand for the JSON documents the protocol distinguishes.      *)

\* The byte that ends a line, as an element of a stream of JSON documents.
NEWLINE == [type |-> "\n", of |-> ""]

CommandTypes == {"mount", "unmount", "getStatus", "listBuckets"}

\* str::trim on the texts of the model
trim(text) == IF text = " " THEN "" ELSE text

\* parse_command: serde_json::from_slice into Command
parse_command(text) ==
    IF text \in CommandTypes THEN Some([type |-> text]) ELSE None

\* process_command: the response of a command; ok says whether the B2
\* authorization, the mount manager or the bucket listing succeeded.
process_command(command, ok) ==
    CASE command.type = "mount" ->
             IF ok THEN [type |-> "success", of |-> "mount"]
             ELSE [type |-> "error", of |-> "mount"]
      [] command.type = "unmount" ->
             IF ok THEN [type |-> "success", of |-> "unmount"]
             ELSE [type |-> "error", of |-> "unmount"]
      [] command.type = "getStatus" -> [type |-> "status", of |-> "getStatus"]
      [] command.type = "listBuckets" ->
             IF ok THEN [type |-> "bucketList", of |-> "listBuckets"]
             ELSE [type |-> "error", of |-> "listBuckets"]

InvalidCommand == [type |-> "error", of |-> "Invalid command"]

\* serialize_response: the JSON of the response, then '\n'
serialize_response(response) == <<response, NEWLINE>>

Connection_new ==
    [state |-> "none", sent |-> <<>>, eof |-> FALSE, peer_reads |-> TRUE,
     read |-> 0, written |-> <<>>]

IpcServer_new ==
    [connection_count |-> 0, conns |-> [k \in 1..MaxConnections |-> Connection_new]]

\* handle_connection up to its loop
handle_connection_enter(srv, k) ==
    [srv EXCEPT !.connection_count = @ + 1, !.conns[k].state = "open"]

\* handle_connection after its loop
handle_connection_leave(srv, k) ==
    [srv EXCEPT !.connection_count = IF @ > 0 THEN @ - 1 ELSE 0,
                !.conns[k].state = "ended"]

\* writer.write_all(json): the bytes reach the stream unless the peer has
\* closed its end.
write_all(conn, json) ==
    IF conn.peer_reads THEN [ok |-> TRUE, conn |-> [conn EXCEPT !.written = @ \o json]]
    ELSE [ok |-> FALSE, conn |-> conn]

\* One turn of the loop of handle_connection on a line it got from
\* read_line.
handle_line(srv, k, line, ok) ==
    LET conn == [srv.conns[k] EXCEPT !.read = @ + 1]
        trimmed == trim(line.text)
        command == parse_command(trimmed)
        response == IF IsSome(command) THEN process_command(Unwrap(command), ok)
                    ELSE InvalidCommand
        w == write_all(conn, serialize_response(response))
    IN IF ~line.utf8
       THEN handle_connection_leave([srv EXCEPT !.conns[k] = conn], k)
       ELSE IF trimmed = "" THEN [srv EXCEPT !.conns[k] = conn]
       ELSE IF IsSome(command) /\ ~w.ok
       THEN handle_connection_leave([srv EXCEPT !.conns[k] = w.conn], k)
       ELSE [srv EXCEPT !.conns[k] = w.conn]

\* read_line returning Ok(0): the client has closed its sending end.
handle_eof(srv, k) == handle_connection_leave(srv, k)

(* fs/b2fs.rs, cache/file_cache.rs : the mutexes.  B2Filesystem holds      *)
(* inode_table and handle_table in a Mutex each, FileCache holds entries    *)
(* in a third; a guard is dropped at the end of the block that took it.     *)
(* The locks of a handler are the lock and unlock steps it makes, in order. *)

Mutexes == {"handle_table", "inode_table", "entries"}

lock(m) == [op |-> "lock", mutex |-> m]

unlock(m) == [op |-> "unlock", mutex |-> m]

\* { let guard = m.lock().unwrap(); ... }
scoped(m) == <<lock(m), unlock(m)>>

\* lookup: the parent's path, then lookup_or_create.
lookup_locks == scoped("inode_table") \o scoped("inode_table")

\* open without O_TRUNC: the path, get_or_fetch inserting its entry and
\* evicting, then the handle table until the reply.
open_locks ==
    scoped("inode_table") \o scoped("entries") \o scoped("entries") \o scoped("handle_table")

\* A variant of create that takes the handle table inside the block of
\* lookup_or_create.
create_locks_inside_inode_table ==
    scoped("inode_table")
        \o <<lock("inode_table"), lock("handle_table"), unlock("handle_table"),
             unlock("inode_table")>>

\* create: the parent's path, lookup_or_create, then the handle table until
\* the reply.
create_locks ==
    scoped("inode_table") \o scoped("inode_table") \o scoped("handle_table")

\* write and read
write_locks == scoped("handle_table")

\* release of a dirty handle whose upload succeeds: the handle table is held
\* throughout, get_parent_ino and file_cache.invalidate run under it.
release_locks ==
    <<lock("handle_table"), lock("inode_table"), unlock("inode_table"),
      lock("entries"), unlock("entries"), unlock("handle_table")>>

\* setattr with size 0: the handle table in the block of the truncate, then
\* get_attr_for_inode.
setattr_locks == scoped("handle_table") \o scoped("inode_table")

cleanup_after_delete_locks == scoped("inode_table") \o scoped("entries")

\* unlink: the parent's path; then, when the store does not know the file,
\* file_cache.invalidate under the inode table, else cleanup_after_delete.
unlink_locks(found) ==
    scoped("inode_table")
        \o IF found THEN cleanup_after_delete_locks
           ELSE <<lock("inode_table"), lock("entries"), unlock("entries"),
                  unlock("inode_table")>>

\* rename of a file: both parents' paths, InodeTable::rename, then
\* file_cache.invalidate.
rename_locks ==
    scoped("inode_table") \o scoped("inode_table") \o scoped("inode_table")
        \o scoped("entries")

Handlers ==
    {"lookup", "open", "create", "write", "release", "setattr", "unlink",
     "unlink_local", "rename"}

handler_locks(handler) ==
    CASE handler = "lookup" -> lookup_locks
      [] handler = "open" -> open_locks
      [] handler = "create" -> create_locks
      [] handler = "write" -> write_locks
      [] handler = "release" -> release_locks
      [] handler = "setattr" -> setattr_locks
      [] handler = "unlink" -> unlink_locks(TRUE)
      [] handler = "unlink_local" -> unlink_locks(FALSE)
      [] handler = "rename" -> rename_locks

\* The threads that run handlers of the adapter.
UpcallThreads == {"u1", "u2", "u3"}

Returned == [handler |-> "none", pc |-> 0]

Mutexes_new == [m \in Mutexes |-> "free"]

\* The step a thread inside a handler makes next.
next_step(u) == handler_locks(u.handler)[u.pc]

\* The position after that step: the next step, or the return.
after_step(u) ==
    IF u.pc = Len(handler_locks(u.handler)) THEN Returned ELSE [u EXCEPT !.pc = @ + 1]

\* Mutex::lock returns once the mutex is free.
mutex_lock(mx, t, m) == [mx EXCEPT ![m] = t]

\* The guard is dropped.
mutex_unlock(mx, m) == [mx EXCEPT ![m] = "free"]

----------------------------------------------------------------------------
InitComp ==
    /\ fetches = [t \in Threads |-> Idle]
    /\ retry = Retry_new
    /\ client = Client_new
    /\ ipc = IpcServer_new
    /\ mutexes = Mutexes_new
    /\ upcalls = [t \in UpcallThreads |-> Returned]

----------------------------------------------------------------------------
(* The adapter under any sequence of kernel requests.                      *)

Names == {<<"a">>, <<"b">>}

Bytes == {1, 2}

\* The bucket when the filesystem is mounted.
InitialBucket == (<<"a">> :> <<1>>)

components(path) == Cardinality({i \in 1..Len(path) : path[i] = SLASH}) + 1

\* The inode numbers the kernel may name in a request: the root and those
\* of the entries it was given.
Inos == kernel_inos

\* The inode numbers of files: the root is a directory.
FileInos == kernel_inos \ {ROOT_INO}

\* A name below a directory the model has room for.
Below(parent, name) ==
    IsSome(get_path(inode_table, parent)) =>
        components(child_path_of(Unwrap(get_path(inode_table, parent)), name)) <= MaxDepth

Cur == Ctx(inode_table, metadata_cache, file_cache, handle_table, disk, remote, rest_reported)

InitFs ==
    /\ metadata_cache = MetadataCache_new
    /\ file_cache = FileCache_new
    /\ handle_table = HandleTable_new
    /\ disk = Disk_new
    /\ remote = InitialBucket
    /\ rest_reported = EmptyMap
    /\ rest_held = {}
    /\ ops = 0
    /\ kernel_inos = {ROOT_INO}

Init == inode_table = InodeTable_new /\ InitFs /\ InitMount /\ InitComp

\* The state after a handler has returned, within the bounds of the model.
Step(c) ==
    /\ ops < MaxOps
    /\ ops' = ops + 1
    /\ c.it.next_ino <= MaxIno + 1
    /\ c.ht.next_fh <= MaxFh + 1
    /\ \A f \in DOMAIN c.disk.files : Len(c.disk.files[f]) <= MaxFileLen
    /\ inode_table' = c.it
    /\ metadata_cache' = c.mc
    /\ file_cache' = c.fc
    /\ handle_table' = c.ht
    /\ disk' = collect(c.disk, open_files(c.ht))
    /\ remote' = c.remote
    /\ rest_reported' = c.rr
    /\ rest_held' = c.rest_held
    /\ UNCHANGED <<mountvars, compvars>>
    /\ kernel_inos' = kernel_inos \cup (IF c.reply.kind \in {"entry", "created"}
                                        THEN {c.reply.attr.ino} ELSE {})

Getattr ==
    \E ino \in Inos, net \in SUBSET {"info"} :
        Step(fs_getattr(Cur, ino, net))

Lookup ==
    \E parent \in Inos, name \in Names, net \in SUBSET {"info", "dir"} :
        /\ Below(parent, name)
        /\ Step(fs_lookup(Cur, parent, name, net))

Readdir ==
    \E ino \in Inos, offset \in 0..1, net \in SUBSET {"list"} :
        Step(fs_readdir(Cur, ino, offset, net))

Open ==
    \E ino \in FileInos, write \in BOOLEAN, trunc \in BOOLEAN, net \in SUBSET {"info", "download"} :
        Step(fs_open(Cur, ino, [write |-> write, trunc |-> trunc], net))

Create ==
    \E parent \in Inos, name \in Names :
        /\ Below(parent, name)
        /\ Step(fs_create(Cur, parent, name))

\* The kernel writes through a handle it holds.
Write ==
    \E fh \in DOMAIN handle_table.handles, offset \in 0..(MaxFileLen - 1), b \in Bytes :
        Step(fs_write(Cur, fh, offset, <<b>>))

\* The kernel reads through a handle it holds.
Read ==
    \E fh \in DOMAIN handle_table.handles, offset \in 0..MaxFileLen, size \in 1..MaxFileLen :
        Step(fs_read(Cur, fh, offset, size))

\* The kernel releases a handle it holds, once.
Release ==
    \E fh \in DOMAIN handle_table.handles, net \in SUBSET {"upload"} :
        Step(fs_release(Cur, handle_table.handles[fh].ino, fh, net))

Setattr ==
    \E ino \in FileInos, size \in {None} \cup {Some(n) : n \in 0..MaxFileLen},
       fh \in {None} \cup {Some(h) : h \in 1..MaxFh}, net \in SUBSET {"info"} :
        Step(fs_setattr(Cur, ino, size, fh, net))

Unlink ==
    \E parent \in Inos, name \in Names, net \in SUBSET {"info", "delete"} :
        /\ Below(parent, name)
        /\ Step(fs_unlink(Cur, parent, name, net))

Rmdir ==
    \E parent \in Inos, name \in Names, net \in SUBSET {"list", "info2", "delete"} :
        /\ Below(parent, name)
        /\ Step(fs_rmdir(Cur, parent, name, net))

Mkdir ==
    \E parent \in Inos, name \in Names, net \in SUBSET {"create_folder"} :
        /\ Below(parent, name)
        /\ Step(fs_mkdir(Cur, parent, name, net))

\* The kernel does not forward the rename of a name onto itself.
Rename ==
    \E parent \in Inos, name \in Names, newparent \in Inos, newname \in Names,
       net \in SUBSET {"info", "info2", "copy", "delete"} :
        /\ Below(parent, name)
        /\ Below(newparent, newname)
        /\ <<parent, name>> # <<newparent, newname>>
        /\ Step(fs_rename(Cur, parent, name, newparent, newname, net))

Next ==
    \/ Getattr \/ Lookup \/ Readdir \/ Open \/ Create \/ Write \/ Read \/ Release
    \/ Setattr \/ Unlink \/ Rmdir \/ Mkdir \/ Rename

Spec == Init /\ [][Next]_vars

\* The adapter on a bucket another client has filled: a key below "b" with
\* no folder marker, so that "b" is a directory only by its child.
SharedBucket == (<<"b", "/", "a">> :> <<1>>)

InitShared ==
    /\ inode_table = InodeTable_new
    /\ metadata_cache = MetadataCache_new
    /\ file_cache = FileCache_new
    /\ handle_table = HandleTable_new
    /\ disk = Disk_new
    /\ remote = SharedBucket
    /\ rest_reported = EmptyMap
    /\ rest_held = {}
    /\ ops = 0
    /\ kernel_inos = {ROOT_INO}
    /\ InitMount
    /\ InitComp

SpecShared == InitShared /\ [][Next]_vars

----------------------------------------------------------------------------
(* The inode table on its own, under any sequence of calls.                *)

\* Paths as a caller may write them: with leading and trailing slashes.
RawPaths ==
    { <<>>, <<"a">>, <<"b">>, <<"/", "a">>, <<"a", "/">>, <<"/">>,
      <<"a", "/", "b">>, <<"/", "a", "/", "b", "/">> }

InitInode == inode_table = InodeTable_new /\ InitFs /\ InitMount /\ InitComp

TableLookupOrCreate ==
    \E path \in RawPaths :
        /\ get_ino(inode_table, path) = None => inode_table.next_ino <= MaxTableIno
        /\ inode_table' = lookup_or_create(inode_table, path).table
        /\ UNCHANGED <<fsvars, mountvars, compvars>>

TableRemove ==
    \E ino \in 1..MaxTableIno :
        /\ inode_table' = InodeTable_remove(inode_table, ino)
        /\ UNCHANGED <<fsvars, mountvars, compvars>>

TableRemoveByPath ==
    \E path \in RawPaths :
        /\ inode_table' = remove_by_path(inode_table, path).table
        /\ UNCHANGED <<fsvars, mountvars, compvars>>

TableRename ==
    \E ino \in 1..MaxTableIno, new_path \in RawPaths :
        /\ inode_table' = InodeTable_rename(inode_table, ino, new_path)
        /\ UNCHANGED <<fsvars, mountvars, compvars>>

NextInode == TableLookupOrCreate \/ TableRemove \/ TableRemoveByPath \/ TableRename

SpecInode == InitInode /\ [][NextInode]_vars

----------------------------------------------------------------------------
(* The mount manager on its own. *)

InitManager == inode_table = InodeTable_new /\ InitFs /\ InitMount /\ InitComp

NextMount == Mount \/ Spawn \/ Insert \/ EndSession \/ Unmount \/ Umount \/ Join

SpecMount == InitManager /\ [][NextMount]_vars

----------------------------------------------------------------------------
(* The content cache on its own: the calls of FileCache's public interface *)
(* with any arguments, data_fn answering with any bytes or failing.        *)

CachePaths == {<<"a">>, <<":">>, <<"_">>}

CacheData == {<<1, 1>>, <<2, 2>>, <<1, 1, 1>>}

CacheSizes == {Len(data) : data \in CacheData}

InitCache == inode_table = InodeTable_new /\ InitFs /\ InitMount /\ InitComp

CacheGetOrFetch ==
    \E path \in CachePaths, expected_size \in CacheSizes,
       data \in {None} \cup {Some(x) : x \in CacheData} :
        LET r == get_or_fetch(file_cache, disk, CacheMaxSize, path, expected_size, data) IN
        /\ ops < MaxCacheOps
        /\ ops' = ops + 1
        /\ file_cache' = r.fc
        /\ disk' = collect(r.disk, {})
        /\ UNCHANGED <<inode_table, metadata_cache, handle_table, remote, rest_reported,
                       rest_held, kernel_inos, mountvars, compvars>>

CacheHasCached ==
    \E path \in CachePaths, expected_size \in CacheSizes :
        /\ ops < MaxCacheOps
        /\ ops' = ops + 1
        /\ disk' = collect(has_cached(disk, path, expected_size).disk, {})
        /\ UNCHANGED <<inode_table, metadata_cache, file_cache, handle_table, remote,
                       rest_reported, rest_held, kernel_inos, mountvars, compvars>>

CacheInvalidate ==
    \E path \in CachePaths :
        LET r == FileCache_invalidate(file_cache, disk, path) IN
        /\ ops < MaxCacheOps
        /\ ops' = ops + 1
        /\ file_cache' = r.fc
        /\ disk' = collect(r.disk, {})
        /\ UNCHANGED <<inode_table, metadata_cache, handle_table, remote, rest_reported,
                       rest_held, kernel_inos, mountvars, compvars>>

NextCache == CacheGetOrFetch \/ CacheHasCached \/ CacheInvalidate

SpecCache == InitCache /\ [][NextCache]_vars

----------------------------------------------------------------------------
(* The content cache under concurrent get_or_fetch calls, any of which may *)
(* fail at any step; Crash ends the process wherever its threads are.      *)

StorePaths == {<<"a">>, <<":">>, <<"_">>}

StoreData == {<<1, 1>>, <<2, 2>>}

StoreSizes == {1, 2}

InitStore == inode_table = InodeTable_new /\ InitFs /\ InitMount /\ InitComp

At(t, pc) == fetches[t].pc = pc

Goto(t, pc) == fetches' = [fetches EXCEPT ![t].pc = pc]

StoreUnchanged ==
    UNCHANGED <<inode_table, metadata_cache, handle_table, remote, rest_reported, rest_held,
                kernel_inos, mountvars, retry, client, ipc, mutexes, upcalls>>

FetchBegin ==
    \E t \in Threads, path \in StorePaths, expected_size \in StoreSizes :
        /\ At(t, "idle")
        /\ ops < MaxFetches
        /\ ops' = ops + 1
        /\ fetches' = [fetches EXCEPT ![t] = [pc |-> "exists", path |-> path,
                                              expected_size |-> expected_size,
                                              data |-> <<>>, tmp |-> None, written |-> 0]]
        /\ UNCHANGED <<file_cache, disk>>
        /\ StoreUnchanged

\* has_cached: local_path.exists()
HasCachedExists ==
    \E t \in DOMAIN fetches :
        /\ At(t, "exists")
        /\ Goto(t, IF exists(disk, path_to_local(fetches[t].path)) THEN "metadata" ELSE "data_fn")
        /\ UNCHANGED <<file_cache, disk, ops>>
        /\ StoreUnchanged

\* has_cached: fs::metadata(&local_path) and the comparison of the length;
\* on a hit get_or_fetch touches the entry and returns.
HasCachedMetadata ==
    \E t \in DOMAIN fetches :
        LET local_path == path_to_local(fetches[t].path) IN
        /\ At(t, "metadata")
        /\ IF ~is_file(disk, local_path)
           THEN Goto(t, "data_fn") /\ UNCHANGED file_cache
           ELSE IF file_len(disk, local_path) = fetches[t].expected_size
           THEN fetches' = [fetches EXCEPT ![t] = Idle]
                /\ file_cache' = touch(file_cache, fetches[t].path)
           ELSE Goto(t, "remove") /\ UNCHANGED file_cache
        /\ UNCHANGED <<disk, ops>>
        /\ StoreUnchanged

\* has_cached: fs::remove_file(&local_path), its result ignored
HasCachedRemove ==
    \E t \in DOMAIN fetches :
        /\ At(t, "remove")
        /\ disk' = collect(remove_file(disk, path_to_local(fetches[t].path)).disk, {})
        /\ Goto(t, "data_fn")
        /\ UNCHANGED <<file_cache, ops>>
        /\ StoreUnchanged

\* data_fn()?: the download answers with bytes or fails
DataFn ==
    \E t \in DOMAIN fetches, data \in {None} \cup {Some(x) : x \in StoreData} :
        /\ At(t, "data_fn")
        /\ fetches' = [fetches EXCEPT ![t] = IF IsSome(data)
                                             THEN [@ EXCEPT !.pc = "new_temp",
                                                            !.data = Unwrap(data)]
                                             ELSE Idle]
        /\ UNCHANGED <<file_cache, disk, ops>>
        /\ StoreUnchanged

\* store: NamedTempFile::new_in(parent)
StoreNewTemp ==
    \E t \in DOMAIN fetches :
        LET r == store_temp(disk, path_to_local(fetches[t].path)) IN
        /\ At(t, "new_temp")
        /\ disk' = r.disk
        /\ fetches' = [fetches EXCEPT ![t].pc = "write_all", ![t].tmp = Some(r.path)]
        /\ UNCHANGED <<file_cache, ops>>
        /\ StoreUnchanged

\* store: one write of tmp.write_all(data)
StoreWrite ==
    \E t \in DOMAIN fetches :
        /\ At(t, "write_all")
        /\ fetches[t].written < Len(fetches[t].data)
        /\ disk' = write_chunk(disk, Unwrap(fetches[t].tmp),
                               fetches[t].data[fetches[t].written + 1])
        /\ fetches' = [fetches EXCEPT ![t].written = @ + 1]
        /\ UNCHANGED <<file_cache, ops>>
        /\ StoreUnchanged

\* store: write_all or persist fails; the temp file is dropped with the error
StoreFails ==
    \E t \in DOMAIN fetches :
        /\ At(t, "write_all")
        /\ disk' = collect(remove_file(disk, Unwrap(fetches[t].tmp)).disk, {})
        /\ fetches' = [fetches EXCEPT ![t] = Idle]
        /\ UNCHANGED <<file_cache, ops>>
        /\ StoreUnchanged

\* store: tmp.persist(&local_path)
StorePersist ==
    \E t \in DOMAIN fetches :
        LET r == persist(disk, Unwrap(fetches[t].tmp), path_to_local(fetches[t].path)) IN
        /\ At(t, "write_all")
        /\ fetches[t].written = Len(fetches[t].data)
        /\ disk' = collect(r.disk, {})
        /\ Goto(t, IF r.ok THEN "track" ELSE "idle")
        /\ UNCHANGED <<file_cache, ops>>
        /\ StoreUnchanged

\* get_or_fetch: entries.insert(...) and evict_if_needed()
TrackAndEvict ==
    \E t \in DOMAIN fetches :
        LET r == track(file_cache, disk, CacheMaxSize, fetches[t].path, fetches[t].data) IN
        /\ At(t, "track")
        /\ file_cache' = r.fc
        /\ disk' = collect(r.disk, {})
        /\ fetches' = [fetches EXCEPT ![t] = Idle]
        /\ UNCHANGED ops
        /\ StoreUnchanged

\* The process ends while threads are inside get_or_fetch.
Crash ==
    /\ \E t \in DOMAIN fetches : ~At(t, "idle") /\ ~At(t, "crashed")
    /\ fetches' = [t \in DOMAIN fetches |-> [pc |-> "crashed"]]
    /\ UNCHANGED <<file_cache, disk, ops>>
    /\ StoreUnchanged

NextStore ==
    \/ FetchBegin \/ HasCachedExists \/ HasCachedMetadata \/ HasCachedRemove \/ DataFn
    \/ StoreNewTemp \/ StoreWrite \/ StoreFails \/ StorePersist \/ TrackAndEvict \/ Crash

SpecStore == InitStore /\ [][NextStore]_vars

----------------------------------------------------------------------------
(* The retry policy around download_file, the server answering each        *)
(* request in any way.                                                      *)

RetryPaths == {<<"a">>}

InitRetry == inode_table = InodeTable_new /\ InitFs /\ InitMount /\ InitComp

RetryUnchanged == UNCHANGED <<inode_table, fsvars, mountvars, fetches, client, ipc, mutexes, upcalls>>

RetryCall ==
    \E path \in RetryPaths :
        /\ retry.pc = "idle"
        /\ retry.calls < MaxRetryCalls
        /\ retry' = with_retry_enter(retry, "download_file", path)
        /\ RetryUnchanged

RetryAttempt ==
    \E answer \in Answers :
        /\ retry.pc = "attempt"
        /\ retry' = with_retry_attempt(retry, answer)
        /\ RetryUnchanged

RetryRefresh ==
    \E refreshed \in BOOLEAN :
        /\ retry.pc = "refresh_auth"
        /\ retry' = with_retry_refresh(retry, refreshed)
        /\ RetryUnchanged

RetrySleep ==
    /\ retry.pc = "sleep"
    /\ retry' = with_retry_sleep(retry)
    /\ RetryUnchanged

NextRetry == RetryCall \/ RetryAttempt \/ RetryRefresh \/ RetrySleep

SpecRetry == InitRetry /\ [][NextRetry]_vars

\* A call that was entered runs on: the operation answers and the sleeps end.
FairRetry ==
    /\ InitRetry /\ [][NextRetry]_vars
    /\ WF_vars(RetryAttempt) /\ WF_vars(RetryRefresh) /\ WF_vars(RetrySleep)

----------------------------------------------------------------------------
(* The REST calls as the adapter makes them: list_file_names for readdir   *)
(* and download_file for open, the server answering each request in any    *)
(* way.                                                                     *)

ClientPaths == {<<"a">>}

InitClient == inode_table = InodeTable_new /\ InitFs /\ InitMount /\ InitComp

ClientUnchanged == UNCHANGED <<inode_table, fsvars, mountvars, fetches, retry, ipc, mutexes, upcalls>>

ClientCall ==
    \E operation \in {"list_file_names", "download_file"}, path \in ClientPaths :
        /\ client.pc = "idle"
        /\ client.calls < MaxClientCalls
        /\ client' = client_call(client, operation, path)
        /\ ClientUnchanged

ClientListPage ==
    \E answer \in Answers :
        /\ client.pc = "list_file_names"
        /\ Len(client.requests) < MaxRequests
        /\ client' = list_file_names_page(client, answer)
        /\ ClientUnchanged

\* tokio::time::sleep(1 s) and `continue` after a 429
ClientListBackOff ==
    /\ client.pc = "backing_off"
    /\ client' = [client EXCEPT !.pc = "list_file_names"]
    /\ ClientUnchanged

ClientDownload ==
    \E answer \in Answers :
        /\ client.pc = "download_file"
        /\ client' = download_file_request(client, answer)
        /\ ClientUnchanged

NextClient == ClientCall \/ ClientListPage \/ ClientListBackOff \/ ClientDownload

SpecClient == InitClient /\ [][NextClient]_vars

\* The requests of a call are history: of a call that goes on, the last
\* MaxRequests are kept.
recent(requests) ==
    IF Len(requests) > MaxRequests THEN Tail(requests) ELSE requests

\* One turn of the loop of list_file_names, however many turns came before.
ClientListTurn ==
    \E answer \in Answers :
        /\ client.pc = "list_file_names"
        /\ client' = [list_file_names_page(client, answer) EXCEPT !.requests = recent(@)]
        /\ ClientUnchanged

NextListing == ClientCall \/ ClientListTurn \/ ClientListBackOff \/ ClientDownload

\* A call that was entered runs on: each request is answered, each sleep ends.
FairClient ==
    /\ InitClient /\ [][NextListing]_vars
    /\ WF_vars(ClientListTurn) /\ WF_vars(ClientListBackOff) /\ WF_vars(ClientDownload)

----------------------------------------------------------------------------
(* The control channel under any clients.                                  *)

IpcTexts == {"", " ", "{"} \cup CommandTypes

IpcLines ==
    {[utf8 |-> TRUE, text |-> t] : t \in IpcTexts} \cup {[utf8 |-> FALSE, text |-> "{"]}

InitIpc == inode_table = InodeTable_new /\ InitFs /\ InitMount /\ InitComp

IpcUnchanged == UNCHANGED <<inode_table, fsvars, mountvars, fetches, retry, client, mutexes, upcalls>>

\* listener.accept() and the task spawned for the connection
IpcAccept ==
    \E k \in 1..MaxConnections :
        /\ ipc.conns[k].state = "none"
        /\ \A j \in 1..(k - 1) : ipc.conns[j].state # "none"
        /\ ipc' = handle_connection_enter(ipc, k)
        /\ IpcUnchanged

\* The client writes a request line.
IpcSend ==
    \E k \in 1..MaxConnections, line \in IpcLines :
        /\ ipc.conns[k].state # "none"
        /\ ~ipc.conns[k].eof
        /\ Len(ipc.conns[k].sent) < MaxLines
        /\ ipc' = [ipc EXCEPT !.conns[k].sent = Append(@, line)]
        /\ IpcUnchanged

\* The client closes its sending end, or the whole socket.
IpcClientClose ==
    \E k \in 1..MaxConnections, whole \in BOOLEAN :
        /\ ipc.conns[k].state # "none"
        /\ ~ipc.conns[k].eof
        /\ ipc' = [ipc EXCEPT !.conns[k].eof = TRUE,
                              !.conns[k].peer_reads = ~whole]
        /\ IpcUnchanged

IpcHandleLine ==
    \E k \in 1..MaxConnections, ok \in BOOLEAN :
        /\ ipc.conns[k].state = "open"
        /\ ipc.conns[k].read < Len(ipc.conns[k].sent)
        /\ ipc' = handle_line(ipc, k, ipc.conns[k].sent[ipc.conns[k].read + 1], ok)
        /\ IpcUnchanged

IpcHandleEof ==
    \E k \in 1..MaxConnections :
        /\ ipc.conns[k].state = "open"
        /\ ipc.conns[k].read = Len(ipc.conns[k].sent)
        /\ ipc.conns[k].eof
        /\ ipc' = handle_eof(ipc, k)
        /\ IpcUnchanged

NextIpc == IpcAccept \/ IpcSend \/ IpcClientClose \/ IpcHandleLine \/ IpcHandleEof

SpecIpc == InitIpc /\ [][NextIpc]_vars

----------------------------------------------------------------------------
(* Properties of the inode table. *)

(* C1: after any sequence of lookup_or_create, remove, remove_by_path and  *)
(* rename calls the two maps of the inode table are inverse of each other: *)
(* every path of path_to_ino maps to an inode whose path it is, and every  *)
(* inode of ino_to_path has a path that resolves back to that inode.       *)
C1_MapsInverse ==
    /\ \A p \in DOMAIN inode_table.path_to_ino :
          get_path(inode_table, Unwrap(get_ino(inode_table, p))) = Some(p)
    /\ \A i \in DOMAIN inode_table.ino_to_path :
          get_ino(inode_table, Unwrap(get_path(inode_table, i))) = Some(i)

----------------------------------------------------------------------------
(* Properties of the adapter. *)

ReadOnly == [write |-> FALSE, trunc |-> FALSE]

ENOENT == Errno("ENOENT")

\* The path of a name below a directory inode of the current state.
PathOf(parent, name) == child_path_of(Unwrap(get_path(inode_table, parent)), name)

\* Some key of the bucket lies below the path: the path is a directory.
HasChildren(bucket, path) ==
    \E k \in DOMAIN bucket : starts_with(k, path \o <<SLASH>>)

\* An open handle of the inode has been written to.
HasDirtyHandle(ino) ==
    \E fh \in DOMAIN handle_table.handles :
        handle_table.handles[fh].ino = ino /\ handle_table.handles[fh].is_dirty

(* C2: in every reachable state no path is in the negative cache while the *)
(* attribute cache holds an entry for the inode of that path.              *)
C2_NegativeDisjoint ==
    \A p \in metadata_cache.negative :
        IsSome(get_ino(inode_table, p)) =>
            ~IsSome(get_attr(metadata_cache, Unwrap(get_ino(inode_table, p))))

(* C3: the cached attribute of a regular file that is not the target of a *)
(* dirty open handle carries the content length the store last reported    *)
(* for the inode.                                                           *)
C3_SizeIsReported ==
    \A i \in DOMAIN metadata_cache.attr_cache :
        (/\ metadata_cache.attr_cache[i].kind = "RegularFile"
         /\ i \in DOMAIN rest_reported
         /\ ~HasDirtyHandle(i))
        => metadata_cache.attr_cache[i].size = rest_reported[i]

(* C4: whenever get_or_fetch returns a local path, for any file of the     *)
(* bucket and any expected size, the bytes stored under the cache root are  *)
(* at most the configured maximum.                                          *)
C4_CacheWithinMax ==
    \A path \in DOMAIN remote, expected_size \in 0..MaxFileLen :
        LET g == get_or_fetch(file_cache, disk, MaxCacheSize, path, expected_size,
                              download_file(remote, path))
        IN g.ok => disk_bytes(g.disk) <= MaxCacheSize

(* C5: at every reachable state of the mount manager at most one running  *)
(* kernel-bridge session exists per bucket id.                              *)
C5_OneSessionPerBucket ==
    \A bucket_id \in BucketIds : Cardinality(running_sessions(tasks, bucket_id)) <= 1

(* C6: no handler issues a REST call while it holds the inode-table mutex, *)
(* the handle-table mutex or the bookkeeping mutex of the content cache.    *)
C6_NoRestUnderLock == rest_held = {}

(* C7: for a handle opened for writing on a path, after write(fh, offset,  *)
(* bytes) and a release(fh) that uploads, open of the path and              *)
(* read(0, offset + |bytes|) return the written bytes at the offset.        *)
C7_WriteReleaseRead ==
    \A fh \in DOMAIN handle_table.handles, offset \in 0..(MaxFileLen - 1), b \in Bytes :
        LET h == handle_table.handles[fh]
            c1 == fs_write(Cur, fh, offset, <<b>>)
            c2 == fs_release(c1, h.ino, fh, {})
            c3 == fs_open(c2, h.ino, ReadOnly, {})
            c4 == fs_read(c3, c3.reply.fh, 0, offset + 1)
        IN (/\ h.is_write
            /\ c1.reply.kind = "written"
            /\ c2.reply.kind = "ok"
            /\ get_path(inode_table, h.ino) = Some(h.path)
            /\ is_file(disk, h.local_path))
           => /\ c3.reply.kind = "opened"
              /\ c4.reply.kind = "data"
              /\ Len(c4.reply.data) = offset + 1
              /\ c4.reply.data[offset + 1] = b

(* C8: for an existing file a of size s and any other path b, once every   *)
(* REST call of rename(a, b) has succeeded and rename has replied success,  *)
(* lookup(a) replies ENOENT and lookup(b) returns an entry of size s.       *)
C8_RenameThenLookup ==
    \A parent \in Inos, name \in Names, newparent \in Inos, newname \in Names :
        (/\ IsSome(get_path(inode_table, parent))
         /\ IsSome(get_path(inode_table, newparent))
         /\ Below(parent, name)
         /\ Below(newparent, newname)
         /\ PathOf(parent, name) # PathOf(newparent, newname)
         /\ PathOf(parent, name) \in DOMAIN remote
         /\ ~HasChildren(remote, PathOf(parent, name)))
        => LET c1 == fs_rename(Cur, parent, name, newparent, newname, {})
               c2 == fs_lookup(c1, parent, name, {})
               c3 == fs_lookup(c2, newparent, newname, {})
           IN c1.reply.kind = "ok"
              => /\ c2.reply = ENOENT
                 /\ c3.reply.kind = "entry"
                 /\ c3.reply.attr.size = Len(remote[PathOf(parent, name)])

(* C9 as stated: for any path p the sequence create(p); unlink(p);         *)
(* lookup(p) ends with lookup replying ENOENT, whatever the store answers.  *)
C9_CreateUnlinkLookup ==
    \A parent \in Inos, name \in Names,
       nu \in SUBSET {"info", "delete"}, nl \in SUBSET {"info", "dir"} :
        LET c1 == fs_create(Cur, parent, name)
            c2 == fs_unlink(c1, parent, name, nu)
            c3 == fs_lookup(c2, parent, name, nl)
        IN c3.reply = ENOENT

(* C9 amended: for a path p that is no directory of the bucket, when       *)
(* create(p) and unlink(p) reply success and the store answers the file     *)
(* probe of lookup(p), lookup(p) replies ENOENT.                            *)
C9_CreateUnlinkLookupAnswered ==
    \A parent \in Inos, name \in Names,
       nu \in SUBSET {"info", "delete"}, nl \in SUBSET {"dir"} :
        LET c1 == fs_create(Cur, parent, name)
            c2 == fs_unlink(c1, parent, name, nu)
            c3 == fs_lookup(c2, parent, name, nl)
        IN (/\ c1.reply.kind = "created"
            /\ c2.reply.kind = "ok"
            /\ ~HasChildren(remote, PathOf(parent, name)))
           => c3.reply = ENOENT

\* A file of the bucket whose attributes are cached is created over,
\* unlinked and looked up: the lookup replies ENOENT.
C9_Witness ==
    \E parent \in Inos, name \in Names :
        /\ IsSome(get_path(inode_table, parent))
        /\ PathOf(parent, name) \in DOMAIN remote
        /\ ~HasChildren(remote, PathOf(parent, name))
        /\ IsSome(get_ino(inode_table, PathOf(parent, name)))
        /\ IsSome(get_attr(metadata_cache, Unwrap(get_ino(inode_table, PathOf(parent, name)))))
        /\ LET c1 == fs_create(Cur, parent, name)
               c2 == fs_unlink(c1, parent, name, {})
               c3 == fs_lookup(c2, parent, name, {})
           IN /\ c1.reply.kind = "created"
              /\ c2.reply.kind = "ok"
              /\ PathOf(parent, name) \notin DOMAIN c2.remote
              /\ c3.reply = ENOENT

\* The directory entries of a readdir reply name the directory `name`.
ListsDirectory(reply, name) ==
    /\ reply.kind = "dir"
    /\ \E i \in 1..Len(reply.entries) :
          reply.entries[i].name = name /\ reply.entries[i].kind = "Directory"

LocalStateRemoved(c, parent, path) ==
    /\ get_ino(c.it, path) = None
    /\ get_dir(c.mc, parent) = None
    /\ ~is_file(c.disk, path_to_local(path))
    /\ path \notin DOMAIN c.fc

(* C11 as stated: unlink of a file that was created locally and never     *)
(* uploaded replies success, removes its local state and issues no call to *)
(* the remote store.                                                        *)
C11_UnlinkLocalNoRest ==
    \A parent \in Inos, name \in Names :
        (/\ IsSome(get_path(inode_table, parent))
         /\ Below(parent, name)
         /\ PathOf(parent, name) \notin DOMAIN remote)
        => LET c1 == fs_create(Cur, parent, name)
               c2 == fs_unlink(c1, parent, name, {})
           IN c1.reply.kind = "created"
              => /\ c2.reply.kind = "ok"
                 /\ LocalStateRemoved(c2, parent, PathOf(parent, name))
                 /\ c2.rest_calls = c1.rest_calls

(* C11 amended: unlink of a file that was created locally and never        *)
(* uploaded, when its get_file_info probe is answered, replies success,     *)
(* removes the local state, leaves the bucket as it is and issues no call   *)
(* to the remote store but that probe.                                      *)
C11_UnlinkLocalProbeOnly ==
    \A parent \in Inos, name \in Names :
        (/\ IsSome(get_path(inode_table, parent))
         /\ Below(parent, name)
         /\ PathOf(parent, name) \notin DOMAIN remote)
        => LET c1 == fs_create(Cur, parent, name)
               c2 == fs_unlink(c1, parent, name, {})
           IN c1.reply.kind = "created"
              => /\ c2.reply.kind = "ok"
                 /\ LocalStateRemoved(c2, parent, PathOf(parent, name))
                 /\ c2.remote = remote
                 /\ c2.rest_calls = c1.rest_calls + 1

\* The listing of the root is cached and a file the bucket lacks is created
\* and unlinked: its local state is gone after one call to the store.
C11_Witness ==
    \E name \in Names :
        /\ IsSome(get_dir(metadata_cache, ROOT_INO))
        /\ PathOf(ROOT_INO, name) \notin DOMAIN remote
        /\ LET c1 == fs_create(Cur, ROOT_INO, name)
               c2 == fs_unlink(c1, ROOT_INO, name, {})
           IN /\ c1.reply.kind = "created"
              /\ IsSome(get_ino(c1.it, PathOf(ROOT_INO, name)))
              /\ c2.reply.kind = "ok"
              /\ LocalStateRemoved(c2, ROOT_INO, PathOf(ROOT_INO, name))
              /\ c2.rest_calls = c1.rest_calls + 1

(* C12: in every reachable state of the inode table the root inode 1 and   *)
(* the empty path map to each other: get_ino("") = 1 and get_path(1) = "". *)
C12_RootFixed ==
    /\ get_ino(inode_table, <<>>) = Some(ROOT_INO)
    /\ get_path(inode_table, ROOT_INO) = Some(<<>>)

----------------------------------------------------------------------------
(* Properties of the content cache. *)

TrackedTotal(fc) == SeqSum([p \in DOMAIN fc |-> fc[p].size], DOMAIN fc)

\* The entries a get_or_fetch call for `path` with result r has evicted.
Evicted(fc, r, path) ==
    IF r.ok /\ r.fetched THEN ((DOMAIN fc) \cup {path}) \ DOMAIN r.fc ELSE {}

\* The access time of entry e when that call ran its eviction.
AccessedAt(fc, path, e) == IF e = path THEN now(fc, path) ELSE fc[e].last_accessed

\* The tracked total when that call ran its eviction.
TotalAtEviction(fc, path, data) ==
    TrackedTotal(MapPut(fc, path, [local_path |-> path_to_local(path),
                                   size |-> Len(data), last_accessed |-> 0]))

Blob600 == [i \in 1..600 |-> 0]

InsertedA == get_or_fetch(FileCache_new, Disk_new, 1000, <<"a">>, 600, Some(Blob600))

InsertedB == get_or_fetch(InsertedA.fc, InsertedA.disk, 1000, <<"b">>, 600, Some(Blob600))

AccessedA == get_or_fetch(InsertedB.fc, InsertedB.disk, 1000, <<"a">>, 600, Some(Blob600))

InsertedC == get_or_fetch(AccessedA.fc, AccessedA.disk, 1000, <<"c">>, 600, Some(Blob600))

file_bytes(d, local_path) == d.files[d.links[local_path]]

CachedWithSize(d, path, expected_size) ==
    /\ is_file(d, path_to_local(path))
    /\ file_len(d, path_to_local(path)) = expected_size

FetcherAnswers == {None} \cup {Some(x) : x \in CacheData}

(* C15: get_or_fetch(p, expected_size) returns the existing local file     *)
(* without calling the fetcher exactly when a cached file for p of length  *)
(* expected_size exists; when a cached file of another length exists it is *)
(* deleted, the fetcher is called, and the file the call returns holds the *)
(* fetched bytes.                                                          *)
C15_FetchUnlessCached ==
    \A path \in CachePaths, expected_size \in CacheSizes, data \in FetcherAnswers :
        LET r == get_or_fetch(file_cache, disk, CacheMaxSize, path, expected_size, data)
            local_path == path_to_local(path)
        IN /\ CachedWithSize(disk, path, expected_size)
                 <=> (r.ok /\ ~r.fetched /\ r.local_path = local_path /\ r.disk = disk)
           /\ (is_file(disk, local_path) /\ file_len(disk, local_path) # expected_size)
                 => /\ r.fetched
                    /\ data = None => ~is_file(r.disk, local_path)
                    /\ r.ok => /\ r.local_path = local_path
                               /\ is_file(r.disk, local_path)
                               /\ file_bytes(r.disk, local_path) = Unwrap(data)

(* C16: at no point of a content-cache store, a failure between the write  *)
(* and the rename and every interleaving with concurrent has_cached and    *)
(* get_or_fetch calls included, is a partially written file at a final     *)
(* cache path: the path is absent or holds the complete bytes of a store.  *)
C16_NoPartialFileAtFinalPath ==
    \A path \in StorePaths :
        is_file(disk, path_to_local(path))
            => file_bytes(disk, path_to_local(path)) \in StoreData

\* A thread has written a part of its data while the final path of its key
\* holds the complete bytes of an earlier store and another thread is
\* inside has_cached for the same local file.
C16_Witness ==
    \E t \in DOMAIN fetches, u \in DOMAIN fetches :
        /\ t # u
        /\ fetches[t].pc = "write_all"
        /\ fetches[t].written > 0 /\ fetches[t].written < Len(fetches[t].data)
        /\ file_bytes(disk, Unwrap(fetches[t].tmp)) \notin StoreData
        /\ is_file(disk, path_to_local(fetches[t].path))
        /\ file_bytes(disk, path_to_local(fetches[t].path)) # fetches[t].data
        /\ fetches[u].pc = "metadata"
        /\ path_to_local(fetches[u].path) = path_to_local(fetches[t].path)

----------------------------------------------------------------------------
(* Properties of the REST client. *)

\* The operation was attempted at most 4 times; the waits so far are 500,
\* 1000 and 2000 ms in this order, one after every failed attempt that was
\* followed by another one, and none after the attempt the call returned on.
RetrySchedule ==
    /\ retry.attempts <= 4
    /\ retry.waits = SubSeq(<<500, 1000, 2000>>, 1, Len(retry.waits))
    /\ retry.pc = "attempt" => Len(retry.waits) = retry.attempts
    /\ retry.pc \in {"refresh_auth", "sleep"} => Len(retry.waits) = retry.attempts - 1
    /\ (retry.pc = "idle" /\ retry.result # "none") => Len(retry.waits) = retry.attempts - 1

(* C17: a call under the retry policy always returns, after at most 4      *)
(* attempts of the operation; it waits 500 ms after the 1st failed         *)
(* attempt, 1000 ms after the 2nd and 2000 ms after the 3rd, and returns   *)
(* the error of the 4th failed attempt without waiting.                    *)
C17_RetryTerminates ==
    /\ []RetrySchedule
    /\ (retry.pc # "idle") ~> (retry.pc = "idle")

\* A call has returned the error of its 4th attempt after the three waits.
C17_Witness ==
    /\ retry.pc = "idle"
    /\ retry.result = "err"
    /\ retry.attempts = 4
    /\ retry.waits = <<500, 1000, 2000>>

\* The failures the retry policy is to retry.
ToBeRetried(answer) ==
    \/ answer.kind = "network"
    \/ answer.kind = "status" /\ answer.status \in {401, 429, 408, 500, 502, 503}

(* C18: the retry policy goes on to another attempt exactly after a        *)
(* failure with status 401, 429, 408, 500, 502 or 503 or a connect,        *)
(* timeout or network failure (while attempts are left), and returns the   *)
(* error at once after 403, 404 and every other failure.                   *)
C18_RetriesExactlyTheRetryable ==
    (retry.answer.kind \in {"status", "network"} /\ retry.attempts \in 1..3
        /\ retry.pc # "attempt")
        => IF ToBeRetried(retry.answer)
           THEN retry.pc \in {"refresh_auth", "sleep"}
           ELSE retry.pc = "idle" /\ retry.result = "err"

\* The requests of the call under way that were not answered with success.
FailedRequests == {i \in DOMAIN client.requests : client.requests[i].answer.kind # "ok"}

AllPages == [i \in 1..MaxPages |-> i]

(* C19: a REST call one request of which is answered 401, and no other     *)
(* request of which fails, does not return an error: the client refreshes  *)
(* the token once and retries, so the call returns successfully after      *)
(* exactly one refresh, and a listing whose page-2 request was answered    *)
(* 401 hands all its pages to the caller.                                  *)
C19_RefreshOnceOn401 ==
    \A i \in DOMAIN client.requests :
        (FailedRequests = {i} /\ client.requests[i].answer.kind = "status"
            /\ client.requests[i].answer.status = 401)
            => /\ client.result # "err"
               /\ client.result = "ok" => client.refreshes = 1
               /\ (client.result = "ok" /\ client.operation = "list_file_names")
                     => client.all_files = AllPages

\* The last n elements of a sequence (all of it when it is shorter).
LastOf(seq, n) == IF Len(seq) <= n THEN seq ELSE SubSeq(seq, Len(seq) - n + 1, Len(seq))

(* C20: the error log never holds more than 10 entries and equals the last *)
(* (up to 10) REST calls that finally failed, in the order they failed:    *)
(* one entry for every call that returned an error, none for a call that   *)
(* succeeded.                                                              *)
C20_ErrorLogIsLastFailures ==
    /\ Len(client.error_log) <= 10
    /\ client.error_log = LastOf(client.failures, 10)

----------------------------------------------------------------------------
(* Properties of the adapter, continued. *)

\* Suppressed names: the exact ones and some with the two prefixes.
SuppressedNames ==
    SuppressedExact \cup { <<".", "_">>, <<".", "_", "a">>,
                           <<".", "c", "o", "m", ".", "a", "p", "p", "l", "e", ".">>,
                           <<".", "c", "o", "m", ".", "a", "p", "p", "l", "e", ".", "a">> }

\* The child path lookup builds from the path of the parent, "" when the
\* parent has none.
SuppressedChildPath(c, parent, name) ==
    child_path_of(IF IsSome(get_path(c.it, parent)) THEN Unwrap(get_path(c.it, parent))
                  ELSE <<>>, name)

(* C21: lookup(parent, name) of a suppressed name replies ENOENT, makes no *)
(* REST call and allocates no inode, whatever the caches hold; it inserts  *)
(* a negative entry for the child path, and the same lookup again replies  *)
(* ENOENT without a REST call and changes nothing.                         *)
C21_SuppressedLookup ==
    \A parent \in Inos, name \in SuppressedNames, net \in SUBSET {"info", "dir"} :
        LET c1 == fs_lookup(Cur, parent, name, net)
            c2 == fs_lookup(c1, parent, name, net)
        IN /\ c1.reply = Errno("ENOENT")
           /\ c1.rest_calls = 0
           /\ c1.it = inode_table
           /\ c1.mc.attr_cache = metadata_cache.attr_cache
           /\ c1.mc.dir_cache = metadata_cache.dir_cache
           /\ is_negative_cached(c1.mc, SuppressedChildPath(Cur, parent, name))
           /\ c2.reply = Errno("ENOENT")
           /\ c2.rest_calls = 0
           /\ c2.it = c1.it /\ c2.mc = c1.mc

\* A suppressed name is looked up in a directory the kernel knows, on a
\* cold cache: no listing of the parent is cached and the child path is not
\* negatively cached yet.
C21_Witness ==
    \E parent \in kernel_inos, name \in SuppressedNames :
        LET c1 == fs_lookup(Cur, parent, name, {}) IN
        /\ IsSome(get_path(inode_table, parent))
        /\ ~IsSome(get_dir(metadata_cache, parent))
        /\ starts_with(name, <<".", "_">>)
        /\ ~is_negative_cached(metadata_cache, SuppressedChildPath(Cur, parent, name))
        /\ c1.reply = Errno("ENOENT")
        /\ is_negative_cached(c1.mc, SuppressedChildPath(Cur, parent, name))

\* The names of the immediate children of the directory at path p that the
\* remote store returns, in the order of its answer: each returned name
\* without the prefix of the directory and without a trailing '/'.
ReturnedChildren(bucket, p) ==
    LET prefix == IF p = <<>> THEN <<>> ELSE p \o <<SLASH>>
        files == b2_list_file_names(bucket, IF p = <<>> THEN None ELSE Some(prefix),
                                    Some(SLASH))
        IsChild(f) == f.file_name # prefix
        children == SelectSeq(files, IsChild)
        bare(n) == IF n[Len(n)] = SLASH THEN SubSeq(n, 1, Len(n) - 1) ELSE n
    IN [i \in 1..Len(children) |->
           bare(SubSeq(children[i].file_name, Len(prefix) + 1,
                       Len(children[i].file_name)))]

EntryNames(entries) == [i \in 1..Len(entries) |-> entries[i].name]

DirPath(ino) ==
    IF IsSome(get_path(inode_table, ino)) THEN Unwrap(get_path(inode_table, ino))
    ELSE <<>>

FailedClean(failed, ok) ==
    failed # ok =>
        /\ failed.reply = Errno("EIO")
        /\ failed.it = inode_table
        /\ failed.mc = metadata_cache
        /\ failed.fc = file_cache

(* C23: when unlink, rmdir, mkdir or rename meets a failed REST call at   *)
(* any of its steps, the folder-marker delete of rmdir and the delete of  *)
(* the original in rename included, the handler replies EIO and leaves    *)
(* the inode table, the attribute and directory caches, the negative      *)
(* cache and the content cache unchanged.                                 *)
C23_FailureLeavesStateUnchanged ==
    \A parent \in Inos, name \in Names :
        Below(parent, name) =>
            /\ \A net \in SUBSET {"info", "delete"} :
                   FailedClean(fs_unlink(Cur, parent, name, net),
                               fs_unlink(Cur, parent, name, {}))
            /\ \A net \in SUBSET {"list", "info2", "delete"} :
                   FailedClean(fs_rmdir(Cur, parent, name, net),
                               fs_rmdir(Cur, parent, name, {}))
            /\ \A net \in SUBSET {"create_folder"} :
                   FailedClean(fs_mkdir(Cur, parent, name, net),
                               fs_mkdir(Cur, parent, name, {}))
            /\ \A newparent \in Inos, newname \in Names,
                  net \in SUBSET {"info", "info2", "copy", "delete"} :
                   (Below(newparent, newname) /\ <<parent, name>> # <<newparent, newname>>) =>
                       FailedClean(fs_rename(Cur, parent, name, newparent, newname, net),
                                   fs_rename(Cur, parent, name, newparent, newname, {}))

(* C24: when the upload made by release(fh) of a dirty handle fails, the   *)
(* local file of the handle is kept on disk with the bytes written to it   *)
(* and release replies with an error, not with success.                    *)
C24_FailedUploadReported ==
    \A fh \in DOMAIN handle_table.handles :
        LET h == handle_table.handles[fh]
            c1 == fs_release(Cur, h.ino, fh, {"upload"})
        IN (h.is_dirty /\ is_file(disk, h.local_path)) =>
               /\ is_file(c1.disk, h.local_path)
               /\ c1.disk.files[c1.disk.links[h.local_path]]
                      = disk.files[disk.links[h.local_path]]
               /\ c1.remote = remote
               /\ c1.reply.kind = "error"

----------------------------------------------------------------------------
(* Properties of the control channel. *)

\* The complete lines of a stream: the chunks that end with a newline.
RECURSIVE StreamLines(_, _)
StreamLines(stream, chunk) ==
    IF stream = <<>> THEN <<>>
    ELSE IF Head(stream) = NEWLINE THEN <<chunk>> \o StreamLines(Tail(stream), <<>>)
    ELSE StreamLines(Tail(stream), Append(chunk, Head(stream)))

\* A request line that holds something: bytes other than white space.
NonEmptyLine(line) == ~line.utf8 \/ line.text \notin {"", " "}

\* The request lines the server has taken from a connection that hold
\* something, in the order they were sent.
RequestsTaken(conn) == SelectSeq(SubSeq(conn.sent, 1, conn.read), NonEmptyLine)

\* The response the protocol asks for a request line.
IsResponseTo(response_line, line) ==
    /\ Len(response_line) = 1
    /\ IF line.utf8 /\ line.text \in CommandTypes
       THEN response_line[1].of = line.text
       ELSE response_line[1] = [type |-> "error", of |-> "Invalid command"]

(* C25: on each connection of the control channel whose client is still    *)
(* reading, every non-empty request line the server has taken has produced *)
(* exactly one response line, in request order: the response of the        *)
(* command for a line that parses, an error response for a line that does  *)
(* not; and the server ends the connection only after the client closed    *)
(* its sending end and every line was taken.                               *)
C25_OneResponsePerLine ==
    \A k \in 1..MaxConnections :
        LET conn == ipc.conns[k]
            requests == RequestsTaken(conn)
            responses == StreamLines(conn.written, <<>>)
        IN conn.peer_reads =>
               /\ Len(responses) = Len(requests)
               /\ \A i \in 1..Len(requests) : IsResponseTo(responses[i], requests[i])
               /\ conn.state = "ended" => conn.eof /\ conn.read = Len(conn.sent)

----------------------------------------------------------------------------
(* Properties of the metadata cache. *)

(* C26: MetadataCache::invalidate(ino) leaves neither an attribute entry   *)
(* nor a directory listing for ino, leaves the entries of every other      *)
(* inode as they were, and invalidating a second time changes nothing.     *)
C26_InvalidateOneInode ==
    \A ino \in 1..(MaxIno + 1) :
        LET inv == MetadataCache_invalidate(metadata_cache, ino) IN
        /\ get_attr(inv, ino) = None
        /\ get_dir(inv, ino) = None
        /\ \A other \in (1..(MaxIno + 1)) \ {ino} :
               /\ get_attr(inv, other) = get_attr(metadata_cache, other)
               /\ get_dir(inv, other) = get_dir(metadata_cache, other)
        /\ MetadataCache_invalidate(inv, ino) = inv

\* An inode with both an attribute entry and a listing is invalidated while
\* another inode has an entry.
C26_Witness ==
    \E ino \in 1..MaxIno, other \in 1..MaxIno :
        /\ ino # other
        /\ IsSome(get_attr(metadata_cache, ino))
        /\ IsSome(get_dir(metadata_cache, ino))
        /\ IsSome(get_attr(metadata_cache, other))
        /\ MetadataCache_invalidate(metadata_cache, ino) # metadata_cache
        /\ get_dir(MetadataCache_invalidate(metadata_cache, ino), ino) = None

----------------------------------------------------------------------------
(* Further properties of the inode table. *)

(* C27: after rename(i, new_path) on a table where new_path was mapped to  *)
(* another inode j, new_path resolves to i, the path of i is the           *)
(* normalized new_path, j has no path any more, and the old path of i is   *)
(* unmapped.                                                               *)
C27_RenameOntoMappedPath ==
    \A i \in DOMAIN inode_table.ino_to_path, new_path \in RawPaths :
        LET j == get_ino(inode_table, new_path)
            old_path == Unwrap(get_path(inode_table, i))
            t == InodeTable_rename(inode_table, i, new_path)
        IN (IsSome(j) /\ Unwrap(j) # i) =>
               /\ get_ino(t, new_path) = Some(i)
               /\ get_path(t, i) = Some(normalize_path(new_path))
               /\ get_path(t, Unwrap(j)) = None
               /\ get_ino(t, old_path) = None

\* lookup_or_create of the path allocates a number: the path is not mapped.
Allocates(t, path) == get_ino(t, path) = None

(* C28: the inode numbers lookup_or_create allocates are strictly          *)
(* increasing and start at 2: an allocation returns next_ino, which is at  *)
(* least 2, and moves next_ino past it, and no call of the table, remove   *)
(* and remove_by_path included, ever moves next_ino back, so a number that *)
(* was allocated is never allocated again.                                 *)
C28_AllocationsIncrease ==
    [][/\ inode_table'.next_ino >= inode_table.next_ino
       /\ inode_table.next_ino >= 2
       /\ \A path \in RawPaths :
              Allocates(inode_table, path) =>
                  LET r == lookup_or_create(inode_table, path) IN
                  /\ r.ino = inode_table.next_ino
                  /\ r.table.next_ino = r.ino + 1
                  /\ \A later \in RawPaths :
                         Allocates(inode_table', later) =>
                             lookup_or_create(inode_table', later).ino >= r.ino
                  /\ \A later \in RawPaths :
                         Allocates(r.table, later) =>
                             lookup_or_create(r.table, later).ino > r.ino]_vars

\* An inode number was allocated and removed, and the next allocation gets
\* a larger number.
C28_Witness ==
    \E path \in RawPaths, gone \in 2..MaxTableIno :
        /\ gone < inode_table.next_ino
        /\ gone \notin DOMAIN inode_table.ino_to_path
        /\ \A p \in DOMAIN inode_table.path_to_ino : inode_table.path_to_ino[p] # gone
        /\ Allocates(inode_table, path)
        /\ lookup_or_create(inode_table, path).ino > gone

----------------------------------------------------------------------------
(* Further properties of the adapter. *)

\* A REST call that lookup made has failed: the probe for the file is its
\* first call, the probe for the directory its second.
LookupMetFailure(c, net) ==
    \/ c.rest_calls >= 1 /\ "info" \in net
    \/ c.rest_calls = 2 /\ "dir" \in net

(* C29: lookup of a name that is not suppressed inserts a negative entry   *)
(* only when the remote store has answered both that no file is at the     *)
(* child path and that nothing lies under the child path followed by '/';  *)
(* when the probe for the file or the probe for the directory fails,       *)
(* lookup replies the synthesized directory attribute, caches no attribute *)
(* and inserts no negative entry.                                          *)
C29_NegativeOnlyWhenDefinitive ==
    \A parent \in Inos, name \in Names, net \in SUBSET {"info", "dir"} :
        IsSome(get_path(inode_table, parent)) =>
            LET c1 == fs_lookup(Cur, parent, name, net)
                child_path == PathOf(parent, name)
            IN /\ (/\ ~is_negative_cached(metadata_cache, child_path)
                   /\ is_negative_cached(c1.mc, child_path))
                  => /\ ~LookupMetFailure(c1, net)
                     /\ c1.rest_calls = 2
                     /\ get_file_info(remote, child_path) = None
                     /\ ~HasChildren(remote, child_path)
               /\ LookupMetFailure(c1, net)
                  => /\ c1.reply.kind = "entry"
                     /\ c1.reply.attr = directory_attr(c1.reply.attr.ino)
                     /\ c1.mc = metadata_cache

(* C30: release(fh) takes fh out of the handle table and uploads exactly   *)
(* when the handle is dirty; the bytes it uploads hold every write that    *)
(* was acknowledged on fh; and a read or write on fh after the release     *)
(* replies EBADF.                                                          *)
C30_ReleaseUploadsAcknowledgedWrites ==
    \A fh \in DOMAIN handle_table.handles :
        LET h == handle_table.handles[fh]
            c1 == fs_release(Cur, h.ino, fh, {})
        IN /\ fh \notin DOMAIN c1.ht.handles
           /\ fh \notin DOMAIN fs_release(Cur, h.ino, fh, {"upload"}).ht.handles
           /\ h.is_dirty => /\ c1.rest_calls = 1
                            /\ h.path \in DOMAIN c1.remote
                            /\ c1.remote[h.path] = disk.files[h.file]
           /\ ~h.is_dirty => c1.rest_calls = 0 /\ c1.remote = remote
           /\ fs_read(c1, fh, 0, 1).reply = Errno("EBADF")
           /\ \A offset \in 0..(MaxFileLen - 1), b \in Bytes :
                  /\ fs_write(c1, fh, offset, <<b>>).reply = Errno("EBADF")
                  /\ LET w == fs_write(Cur, fh, offset, <<b>>)
                         c2 == fs_release(w, h.ino, fh, {})
                     IN w.reply.kind = "written" =>
                            /\ c2.rest_calls = 1
                            /\ h.path \in DOMAIN c2.remote
                            /\ Len(c2.remote[h.path]) > offset
                            /\ c2.remote[h.path][offset + 1] = b

(* C31: after an unlink(parent, name) that replies success, by a remote    *)
(* delete, a hide, or the branch for a file the store does not hold, the   *)
(* child path has no inode, the attribute cache has no entry for the inode *)
(* the child had, the listing of the parent is not cached, and the content *)
(* cache holds no file for the path.                                       *)
C31_UnlinkCleansUp ==
    \A parent \in Inos, name \in Names, net \in SUBSET {"info", "delete"} :
        (Below(parent, name) /\ IsSome(get_path(inode_table, parent))) =>
            LET child_path == PathOf(parent, name)
                had == get_ino(inode_table, child_path)
                c1 == fs_unlink(Cur, parent, name, net)
            IN c1.reply.kind = "ok" =>
                   /\ get_ino(c1.it, child_path) = None
                   /\ IsSome(had) => get_attr(c1.mc, Unwrap(had)) = None
                   /\ get_dir(c1.mc, parent) = None
                   /\ child_path \notin DOMAIN c1.fc
                   /\ ~is_file(c1.disk, path_to_local(child_path))

\* The path is a directory of the bucket: it has a folder marker, or keys
\* lie below it.
IsRemoteDirectory(bucket, path) ==
    (path \o <<SLASH>>) \in DOMAIN bucket \/ HasChildren(bucket, path)

(* C32: rename whose source is a directory, with a folder-marker object or *)
(* inferred only from the keys below it, replies ENOSYS and changes        *)
(* neither the remote store nor the inode table or the caches.             *)
C32_DirectoryRenameRefused ==
    \A parent \in Inos, name \in Names, newparent \in Inos, newname \in Names :
        (/\ IsSome(get_path(inode_table, parent))
         /\ IsSome(get_path(inode_table, newparent))
         /\ Below(parent, name)
         /\ Below(newparent, newname)
         /\ <<parent, name>> # <<newparent, newname>>
         /\ PathOf(parent, name) \notin DOMAIN remote
         /\ IsRemoteDirectory(remote, PathOf(parent, name)))
        => LET c1 == fs_rename(Cur, parent, name, newparent, newname, {})
           IN /\ c1.reply = Errno("ENOSYS")
              /\ c1.remote = remote
              /\ c1.it = inode_table
              /\ c1.mc = metadata_cache
              /\ c1.fc = file_cache

\* The steps in which mount and unmount return an error.
MountRefused(p) ==
    \E bucket_id \in DOMAIN mounts, mountpoint \in Mountpoints : MountCheck(p, bucket_id, mountpoint)

MountFailed(p) == MountInsert(p) /\ ~tasks[calls[p].task].running

UnmountRefused(p) ==
    \E bucket_id \in BucketIds \ DOMAIN mounts : UnmountRemove(p, bucket_id)

(* C33: a mount of a bucket id that is in the session map returns without  *)
(* spawning a task and leaves the map unchanged; a mount whose task has     *)
(* finished at the end of the sleep returns leaving no session of that      *)
(* bucket in the map; an unmount of a bucket id that is not in the map      *)
(* returns leaving the map unchanged.                                       *)
C33_ManagerErrors ==
    [][\A p \in Callers :
          /\ MountRefused(p) => calls'[p] = Idle /\ UNCHANGED <<mounts, tasks>>
          /\ MountFailed(p) => calls'[p] = Idle /\ calls[p].bucket_id \notin DOMAIN mounts'
          /\ UnmountRefused(p) => calls'[p] = Idle /\ UNCHANGED <<mounts, tasks>>]_vars

(* C34: two different remote keys never share a local cache file: after    *)
(* get_or_fetch has stored a blob for one key, neither has_cached nor       *)
(* get_or_fetch for another key returns the path of that file.              *)
C34_LocalPathsInjective ==
    \A k1 \in CachePaths, k2 \in CachePaths, data \in CacheData :
        LET r1 == get_or_fetch(file_cache, disk, CacheMaxSize, k1, Len(data), Some(data))
            h2 == has_cached(r1.disk, k2, Len(data))
            r2 == get_or_fetch(r1.fc, r1.disk, CacheMaxSize, k2, Len(data), None)
        IN (k1 # k2 /\ r1.ok /\ r1.fetched)
               => /\ h2.hit # Some(r1.local_path)
                  /\ r2.ok => r2.local_path # r1.local_path

(* C35: once unlink of a path has replied success, the release of a dirty   *)
(* write handle that was opened on the path before the unlink does not      *)
(* upload the path, and does not insert an attribute entry for the removed  *)
(* inode.                                                                   *)
C35_UnlinkedStaysRemoved ==
    \A fh \in DOMAIN handle_table.handles, parent \in Inos, name \in Names :
        LET h == handle_table.handles[fh] IN
        (/\ h.is_write /\ h.is_dirty
         /\ IsSome(get_path(inode_table, parent))
         /\ Below(parent, name)
         /\ PathOf(parent, name) = h.path)
        => LET c1 == fs_unlink(Cur, parent, name, {})
               c2 == fs_release(c1, h.ino, fh, {})
           IN c1.reply.kind = "ok"
                  => /\ h.path \notin DOMAIN c2.remote
                     /\ get_attr(c2.mc, h.ino) = None

(* C36: a listing enters the directory cache only when list_file_names      *)
(* succeeded: after a readdir whose listing failed, the next readdir of     *)
(* the directory queries the remote store again and replies its children.   *)
C36_FailedListingNotCached ==
    \A ino \in Inos :
        (/\ IsSome(get_path(inode_table, ino))
         /\ ~IsSome(get_dir(metadata_cache, ino)))
        => LET c1 == fs_readdir(Cur, ino, 0, {"list"})
               c2 == fs_readdir(c1, ino, 0, {})
           IN /\ ~IsSome(get_dir(c1.mc, ino))
              /\ c2.rest_calls = c1.rest_calls + 1
              /\ c2.reply = fs_readdir(Cur, ino, 0, {}).reply

\* A blob one byte longer than the configured maximum of the cache.
Oversized == [i \in 1..(CacheMaxSize + 1) |-> 1]

(* C37: whenever get_or_fetch returns a local path, the file at the path    *)
(* exists and, after a fetch, holds the fetched blob, also for a blob       *)
(* longer than the configured maximum.                                      *)
C37_ReturnedFileExists ==
    \A path \in CachePaths, data \in CacheData \cup {Oversized} :
        LET r == get_or_fetch(file_cache, disk, CacheMaxSize, path, Len(data), Some(data))
        IN r.ok => /\ is_file(r.disk, r.local_path)
                   /\ r.fetched => file_bytes(r.disk, r.local_path) = data

(* C38: the bytes written through an open write handle that is backed by    *)
(* the content-cache file of its path are not served to another open of     *)
(* the path: the other open reads the bytes stored remotely.                *)
C38_DirtyBytesNotServed ==
    \A fh \in DOMAIN handle_table.handles, b \in Bytes :
        LET h == handle_table.handles[fh] IN
        (/\ h.is_write
         /\ h.local_path = path_to_local(h.path)
         /\ get_path(inode_table, h.ino) = Some(h.path)
         /\ h.path \in DOMAIN remote
         /\ is_file(disk, h.local_path)
         /\ disk.links[h.local_path] = h.file
         /\ file_bytes(disk, h.local_path) = remote[h.path])
        => LET c1 == fs_write(Cur, fh, 0, <<b>>)
               c2 == fs_open(c1, h.ino, ReadOnly, {})
               c3 == fs_read(c2, c2.reply.fh, 0, MaxFileLen)
           IN c2.reply.kind = "opened" => c3.reply.data = remote[h.path]

(* C39: every call of list_file_names returns, whatever the remote store    *)
(* answers, a status of 429 to every request included.                      *)
C39_ListingTerminates == (client.pc = "list_file_names") ~> (client.pc = "idle")

----------------------------------------------------------------------------
(* The mutexes of the adapter under handlers running on several threads.   *)

InitLocks == inode_table = InodeTable_new /\ InitFs /\ InitMount /\ InitComp

LocksUnchanged == UNCHANGED <<inode_table, fsvars, mountvars, fetches, retry, client, ipc>>

\* The kernel bridge hands a request to a thread.
UpcallBegin ==
    \E t \in UpcallThreads, handler \in Handlers :
        /\ upcalls[t] = Returned
        /\ upcalls' = [upcalls EXCEPT ![t] = [handler |-> handler, pc |-> 1]]
        /\ UNCHANGED mutexes
        /\ LocksUnchanged

UpcallLock ==
    \E t \in UpcallThreads :
        /\ upcalls[t] # Returned
        /\ next_step(upcalls[t]).op = "lock"
        /\ mutexes[next_step(upcalls[t]).mutex] = "free"
        /\ mutexes' = mutex_lock(mutexes, t, next_step(upcalls[t]).mutex)
        /\ upcalls' = [upcalls EXCEPT ![t] = after_step(@)]
        /\ LocksUnchanged

UpcallUnlock ==
    \E t \in UpcallThreads :
        /\ upcalls[t] # Returned
        /\ next_step(upcalls[t]).op = "unlock"
        /\ mutexes' = mutex_unlock(mutexes, next_step(upcalls[t]).mutex)
        /\ upcalls' = [upcalls EXCEPT ![t] = after_step(@)]
        /\ LocksUnchanged

NextLocks == UpcallBegin \/ UpcallLock \/ UpcallUnlock

SpecLocks == InitLocks /\ [][NextLocks]_vars

\* Thread t waits for a mutex that thread u holds.
WaitsFor(t, u) ==
    /\ upcalls[t] # Returned
    /\ next_step(upcalls[t]).op = "lock"
    /\ mutexes[next_step(upcalls[t]).mutex] = u

HeldBy(t) == {m \in Mutexes : mutexes[m] = t}

\* The order in which the handlers take the mutexes.
LockRank(m) ==
    CASE m = "handle_table" -> 1
      [] m = "inode_table" -> 2
      [] m = "entries" -> 3

(* C40: the handlers take the handle-table mutex, the inode-table mutex    *)
(* and the mutex of the content cache in one order, and in no reachable     *)
(* state does every thread of a set of threads wait for a mutex that a      *)
(* thread of the set holds.                                                 *)
C40_NoDeadlock ==
    /\ \A t \in UpcallThreads :
           (upcalls[t] # Returned /\ next_step(upcalls[t]).op = "lock")
               => \A m \in HeldBy(t) : LockRank(m) < LockRank(next_step(upcalls[t]).mutex)
    /\ \A S \in (SUBSET UpcallThreads) \ {{}} :
           \E t \in S : \A u \in S : ~WaitsFor(t, u)

\* A thread inside release holds the handle table and the inode table, a
\* second thread waits for the handle table, and a third, holding the
\* entries of the content cache, can go on.
C40_Witness ==
    \E t \in UpcallThreads, u \in UpcallThreads, v \in UpcallThreads :
        /\ HeldBy(t) = {"handle_table", "inode_table"}
        /\ WaitsFor(u, t)
        /\ HeldBy(v) = {"entries"}

================================================================================
